---- MODULE Spec2Model ----
(***************************************************************************)
(* GRUVBOK sequencer core: the MIDIScheduler pool, the Sequencer state     *)
(* machine, the Song container and the mode interpreters, as a state       *)
(* machine over the millisecond counter.                                   *)
(***************************************************************************)
EXTENDS Integers, Sequences, FiniteSets, TLC

(***************************************************************************)
(* Program constants                                                       *)
(***************************************************************************)
MAX_SCHEDULED_EVENTS == 64
MAX_EVENTS == 32
NUM_MODES == 15
NUM_PATTERNS == 32
NUM_TRACKS == 8
NUM_EVENTS == 16

(***************************************************************************)
(* Bounds of the model                                                     *)
(***************************************************************************)
\* millis() is an unsigned long that wraps; the model's counter wraps at
\* MillisWrap (the firmware's 2^32 is beyond TLC's integers).
MillisWrap == 1048576
\* how far before the wrap a run may start
WrapLead == 3
\* horizon: a run ends MaxElapsed milliseconds after it started
MaxElapsed == 3
\* number of calls made to the scheduler in one run
MaxCalls == 3
\* the burst: at most MaxBurst schedule calls, the n-th delayed by n * FillUnit
MaxBurst == 66
FillUnit == 10
\* the drain: millis() advances by FillStep up to FillHorizon, MaxDrains updates
FillStep == 330
FillHorizon == 660
MaxDrains == 3
\* the application: calls other than a plain update(), and the run's length
SeqMaxCalls == 2
SeqHorizon == 500
\* the largest index handed to an accessor, and the largest pattern index
IndexTop == 255
PatternTop == 63
\* runs of the pattern-sequencing protocol, and the length of a short
\* meta-track
ProtoMaxRuns == 3
MetaRun == 3

VARIABLES
  now,        \* millis()
  elapsed,    \* milliseconds since the run started (horizon only)
  events,     \* MIDIScheduler::events, the pool of 64 slots
  admitted,   \* history: one record per message that got a slot, by id
  updTimes,   \* history: the time of every MIDIScheduler::update()
  cleared,    \* history: ids discarded by MIDIScheduler::clear()
  sink,       \* history: usbMIDI calls, in order
  calls,      \* history: number of calls the application has made
  requests,   \* history: every message the scheduler was asked to schedule
  last,       \* history: what the latest call was and what it returned
  song,             \* Song::patterns, the cells that are not all-zero
  modes,            \* Sequencer::modes, with each interpreter's own fields
  currentPatterns,  \* Sequencer::currentPatterns
  currentStep,      \* Sequencer::currentStep
  currentTrack,     \* Sequencer::currentTrack
  currentMode,      \* Sequencer::currentMode
  sequencePosition, \* Sequencer::sequencePosition
  bpm,              \* Sequencer::bpm, as the fraction num / den
  stepInterval,     \* Sequencer::stepInterval
  clockInterval,    \* Sequencer::clockInterval
  lastStepTime,     \* Sequencer::lastStepTime
  lastClockTime,    \* Sequencer::lastClockTime
  sendClock,        \* Sequencer::sendClock
  isPlaying,        \* Sequencer::isPlaying
  led,              \* brightness last given to Hardware::setLEDBrightness
  lastSliderDebug,  \* the static local of Sequencer::handleInput
  stops,            \* history: one record per Sequencer::stop()
  heard,            \* history: the Mode::processEvent() calls made directly
  eventBuffer,      \* a MIDIEventBuffer in its caller's hands
  registry,         \* ModeRegistry::modes, and the pointers it deleted
  started           \* history: the time of every Sequencer::start()

schedVars ==
  <<now, elapsed, events, admitted, updTimes, cleared, sink, calls, requests,
    last>>
seqVars ==
  <<song, modes, currentPatterns, currentStep, currentTrack, currentMode,
    sequencePosition, bpm, stepInterval, clockInterval, lastStepTime,
    lastClockTime, sendClock, isPlaying, led, lastSliderDebug, stops, heard,
    eventBuffer, registry, started>>
vars == <<schedVars, seqVars>>

Slots == 0 .. (MAX_SCHEDULED_EVENTS - 1)

\* F applied to the value of x: sequencing of two statements, the first
\* one evaluated once
Bind(x, F(_)) == CHOOSE y \in {F(v) : v \in {x}} : TRUE

\* for (i = lo; i <= hi; i++) x = Body(x, i): the passes in order, the
\* range split in halves
For(first, last_, x0, Body(_, _)) ==
  LET RECURSIVE Range(_, _, _)
      Range(lo, hi, x) ==
        IF lo > hi THEN x
        ELSE IF lo = hi THEN Body(x, lo)
        ELSE Bind(Range(lo, (lo + hi) \div 2, x),
                  LAMBDA y : Range(((lo + hi) \div 2) + 1, hi, y))
  IN Range(first, last_, x0)

Wrap(x) == x % MillisWrap

(***************************************************************************)
(* MIDIScheduler                                                           *)
(***************************************************************************)
\* ScheduledEvent(): only active is initialised; the other fields are never
\* read while the slot is inactive, id 0 marks "never used".
EmptySlot ==
  [type |-> "NOTE_ON", channel |-> 0, data1 |-> 0, data2 |-> 0,
   executeTime |-> 0, active |-> FALSE, id |-> 0]

FreeSlots(ev) == {i \in Slots : ~ev[i].active}

\* mutant: a full pool gives up its first slot instead of refusing
FindFreeSlot_Evicts(ev) ==
  IF FreeSlots(ev) = {} THEN 0
  ELSE CHOOSE i \in FreeSlots(ev) : \A j \in FreeSlots(ev) : i <= j

\* First inactive slot in index order, -1 when there is none.
FindFreeSlot(ev) ==
  IF FreeSlots(ev) = {} THEN -1
  ELSE CHOOSE i \in FreeSlots(ev) : \A j \in FreeSlots(ev) : i <= j

\* sch = [events, admitted]; t = millis(); epoch = updates made so far
ScheduleEvent(sch0, type, channel, data1, data2, delta, t, epoch) ==
  Bind(sch0, LAMBDA sch :
    LET slot == FindFreeSlot(sch.events) IN
    IF slot < 0 THEN sch
    ELSE [events |-> [sch.events EXCEPT ![slot] =
                        [type |-> type, channel |-> channel, data1 |-> data1,
                         data2 |-> data2, executeTime |-> Wrap(t + delta),
                         active |-> TRUE, id |-> Len(sch.admitted) + 1]],
          admitted |-> Append(sch.admitted,
                        [type |-> type, channel |-> channel, data1 |-> data1,
                         data2 |-> data2, delta |-> delta, at |-> t,
                         exec |-> Wrap(t + delta), epoch |-> epoch,
                         slot |-> slot])])

\* mutant: only channels above 16 are refused
ValidChannel_ZeroPasses(channel) == ~(channel > 16)

\* if (channel == 0 || channel > 16) return;
ValidChannel(channel) == ~(channel = 0 \/ channel > 16)

Note(sch, channel, pitch, velocity, delta, t, epoch) ==
  IF ~ValidChannel(channel) THEN sch
  ELSE ScheduleEvent(sch, "NOTE_ON", channel, pitch, velocity, delta, t, epoch)

Off(sch, channel, pitch, delta, t, epoch) ==
  IF ~ValidChannel(channel) THEN sch
  ELSE ScheduleEvent(sch, "NOTE_OFF", channel, pitch, 0, delta, t, epoch)

Cc(sch, channel, controller, value, delta, t, epoch) ==
  IF ~ValidChannel(channel) THEN sch
  ELSE ScheduleEvent(sch, "CC", channel, controller, value, delta, t, epoch)

\* mutant: the stop-all goes out as a note-off of note 0
Stopall_AsNoteOff(sch, channel, delta, t, epoch) ==
  IF ~ValidChannel(channel) THEN sch
  ELSE ScheduleEvent(sch, "NOTE_OFF", channel, 0, 0, delta, t, epoch)

Stopall(sch, channel, delta, t, epoch) ==
  IF ~ValidChannel(channel) THEN sch
  ELSE ScheduleEvent(sch, "STOP_ALL", channel, 0, 0, delta, t, epoch)

\* mutant: a skipped message is counted as scheduled
ScheduleAllStep_CountsSkipped(r, event, t, epoch) ==
  IF ~ValidChannel(event.channel) THEN [r EXCEPT !.scheduled = @ + 1]
  ELSE IF FindFreeSlot(r.sch.events) < 0 THEN r
  ELSE [sch |-> ScheduleEvent(r.sch, event.type, event.channel, event.data1,
                              event.data2, event.delta, t, epoch),
        scheduled |-> r.scheduled + 1]

\* One pass of the loop of scheduleAll; r = [sch, scheduled].  A message
\* with an invalid channel is skipped; on a full pool the source leaves the
\* loop, and no later pass could find a slot either.
ScheduleAllStep(r, event, t, epoch) ==
  IF ~ValidChannel(event.channel) THEN r
  ELSE IF FindFreeSlot(r.sch.events) < 0 THEN r
  ELSE [sch |-> ScheduleEvent(r.sch, event.type, event.channel, event.data1,
                              event.data2, event.delta, t, epoch),
        scheduled |-> r.scheduled + 1]

ScheduleAll(sch, buffer, t, epoch) ==
  For(1, Len(buffer), [sch |-> sch, scheduled |-> 0],
      LAMBDA r, i : ScheduleAllStep(r, buffer[i], t, epoch))

\* The usbMIDI call update() makes for one slot.
SinkCall(e, upd) ==
  CASE e.type = "NOTE_ON" ->
         [call |-> "sendNoteOn", a |-> e.data1, b |-> e.data2,
          channel |-> e.channel, id |-> e.id, upd |-> upd]
    [] e.type = "NOTE_OFF" ->
         [call |-> "sendNoteOff", a |-> e.data1, b |-> 0,
          channel |-> e.channel, id |-> e.id, upd |-> upd]
    [] e.type = "CC" ->
         [call |-> "sendControlChange", a |-> e.data1, b |-> e.data2,
          channel |-> e.channel, id |-> e.id, upd |-> upd]
    [] e.type = "STOP_ALL" ->
         [call |-> "sendControlChange", a |-> 123, b |-> 0,
          channel |-> e.channel, id |-> e.id, upd |-> upd]

\* mutant: a slot fires only after its fire time has passed
Due_Later(e, currentTime) == e.active /\ currentTime > e.executeTime

Due(e, currentTime) == e.active /\ currentTime >= e.executeTime

SlotOrder == [i \in 1 .. MAX_SCHEDULED_EVENTS |-> i - 1]

\* The sink calls of one update(), in slot order.
UpdateCalls(ev, currentTime, upd) ==
  LET due == SelectSeq(SlotOrder, LAMBDA i : Due(ev[i], currentTime))
  IN [k \in 1 .. Len(due) |-> SinkCall(ev[due[k]], upd)]

\* mutant: update() forgets to mark the fired slot free
UpdateEvents_KeepsActive(ev, currentTime) == ev

UpdateEvents(ev, currentTime) ==
  [i \in Slots |-> IF Due(ev[i], currentTime)
                   THEN [ev[i] EXCEPT !.active = FALSE]
                   ELSE ev[i]]

\* mutant: clear() starts at slot 1
ClearEvents_SkipsFirst(ev) ==
  [i \in Slots |-> IF i >= 1 THEN [ev[i] EXCEPT !.active = FALSE] ELSE ev[i]]

ClearEvents(ev) == [i \in Slots |-> [ev[i] EXCEPT !.active = FALSE]]

ActiveIds(ev) == {ev[i].id : i \in Slots \ FreeSlots(ev)}

(***************************************************************************)
(* Event, Track, Pattern, Song                                             *)
(***************************************************************************)
SWITCH_MASK == 268435456

\* a & b on unsigned integers
RECURSIVE BitAnd(_, _)
BitAnd(a, b) ==
  IF a = 0 \/ b = 0 THEN 0
  ELSE (a % 2) * (b % 2) + 2 * BitAnd(a \div 2, b \div 2)

\* the weight of the lowest bit of pot index
PotShift(index) ==
  CASE index = 0 -> 2097152
    [] index = 1 -> 16384
    [] index = 2 -> 128
    [] index = 3 -> 1

\* An Event is its 32-bit word data.
GetSwitch(data) == (data \div SWITCH_MASK) % 2 = 1

SetSwitch(data, value) ==
  IF value = GetSwitch(data) THEN data
  ELSE IF value THEN data + SWITCH_MASK ELSE data - SWITCH_MASK

ToggleSwitch(data) == SetSwitch(data, ~GetSwitch(data))

GetPot(data, index) ==
  IF index \in 0 .. 3 THEN (data \div PotShift(index)) % 128 ELSE 0

\* mutant: values above 127 saturate
SetPot_Saturates(data, index, value) ==
  IF index \in 0 .. 3
  THEN data - GetPot(data, index) * PotShift(index)
            + (IF value > 127 THEN 127 ELSE value) * PotShift(index)
  ELSE data

SetPot(data, index, value) ==
  IF index \in 0 .. 3
  THEN data - GetPot(data, index) * PotShift(index)
            + BitAnd(value, 127) * PotShift(index)
  ELSE data

NewEvent(sw, p0, p1, p2, p3) ==
  SetPot(SetPot(SetPot(SetPot(SetSwitch(0, sw), 0, p0), 1, p1), 2, p2), 3, p3)

\* The element of Track::events that getEvent(index) returns.
Track_getEvent(index) == BitAnd(index, 15)

\* The element of Pattern::tracks that getTrack(index) returns.
Pattern_getTrack(index) == BitAnd(index, 7)

\* The <<row, column>> of Song::patterns that getPattern(mode, pattern)
\* returns.
Song_getPattern(mode, pattern) == <<BitAnd(mode, 15), BitAnd(pattern, 31)>>

\* The cell reached by getPattern(mode, pattern).getTrack(track)
\* .getEvent(index).
Cell(mode, pattern, track, index) ==
  Song_getPattern(mode, pattern)
    \o <<Pattern_getTrack(track), Track_getEvent(index)>>

\* Song(): every Event is 0; a song holds the cells that differ from 0.
EmptySong == [c \in {} |-> 0]

ReadEvent(sg, mode, pattern, track, index) ==
  LET c == Cell(mode, pattern, track, index)
  IN IF c \in DOMAIN sg THEN sg[c] ELSE 0

WriteEvent(sg, mode, pattern, track, index, data) ==
  LET c == Cell(mode, pattern, track, index)
  IN [x \in DOMAIN sg \cup {c} |-> IF x = c THEN data ELSE sg[x]]

(***************************************************************************)
(* MIDIEventBuffer                                                         *)
(***************************************************************************)
\* events[0 .. count-1] as a sequence; failed counts the add() calls that
\* returned false (history).
EmptyBuffer == [events |-> <<>>, failed |-> 0]

\* mutant: a full buffer makes room by dropping its oldest message
BufferAdd_DropsOldest(buffer, event) ==
  IF Len(buffer.events) >= MAX_EVENTS
  THEN [buffer EXCEPT !.events = Append(Tail(@), event)]
  ELSE [buffer EXCEPT !.events = Append(@, event)]

BufferAdd(buffer, event) ==
  IF Len(buffer.events) >= MAX_EVENTS
  THEN [buffer EXCEPT !.failed = @ + 1]
  ELSE [buffer EXCEPT !.events = Append(@, event)]

\* the add() calls of one processEvent, in order: those that find room are
\* stored, the others return false
BufferAddAll(buffer, out) ==
  For(1, Len(out), buffer, LAMBDA b, i : BufferAdd(b, out[i]))

Remaining(buffer) == MAX_EVENTS - Len(buffer.events)

(***************************************************************************)
(* ModeRegistry                                                            *)
(***************************************************************************)
\* Mode* values: nullptr is 0, the others are the objects of the heap
nullptr == 0

\* ModeRegistry(): every slot nullptr; deleted is history
EmptyRegistry == [modes |-> [i \in 0 .. (NUM_MODES - 1) |-> nullptr],
                  deleted |-> {}]

\* bool registerMode(uint8_t index, Mode* mode)
RegisterMode(reg, index, mode) ==
  IF index >= NUM_MODES THEN [reg |-> reg, ret |-> FALSE]
  ELSE IF mode = nullptr THEN [reg |-> reg, ret |-> FALSE]
  ELSE [reg |-> [modes |-> [reg.modes EXCEPT ![index] = mode],
                 deleted |-> IF reg.modes[index] # nullptr
                             THEN reg.deleted \cup {reg.modes[index]}
                             ELSE reg.deleted],
        ret |-> TRUE]

\* void unregisterMode(uint8_t index)
UnregisterMode(reg, index) ==
  IF index >= NUM_MODES \/ reg.modes[index] = nullptr THEN reg
  ELSE [modes |-> [reg.modes EXCEPT ![index] = nullptr],
        deleted |-> reg.deleted \cup {reg.modes[index]}]

(***************************************************************************)
(* MIDIEvent and the interpreters (Mode::processEvent)                     *)
(***************************************************************************)
MIDIEvent(type, channel, data1, data2, delta) ==
  [type |-> type, channel |-> channel, data1 |-> data1, data2 |-> data2,
   delta |-> delta]

NoteOn(channel, note, velocity, delta) ==
  MIDIEvent("NOTE_ON", channel, note, velocity, delta)
NoteOff(channel, note, delta) == MIDIEvent("NOTE_OFF", channel, note, 0, delta)
\* mutant: control changes go out on channel 1
ControlChange_OnChannel1(channel, controller, value, delta) ==
  MIDIEvent("CC", 1, controller, value, delta)

ControlChange(channel, controller, value, delta) ==
  MIDIEvent("CC", channel, controller, value, delta)

Tracks == 0 .. (NUM_TRACKS - 1)

\* A slot of Sequencer::modes: nullptr, or an interpreter with its channel
\* and its per-track fields (Mode2's lastNote, Mode4's direction).
NullMode ==
  [kind |-> "nullptr", channel |-> 0, lastNote |-> [i \in Tracks |-> 0],
   direction |-> [i \in Tracks |-> TRUE]]

NewMode(kind, channel) == [NullMode EXCEPT !.kind = kind, !.channel = channel]

\* integer division of C, rounding toward zero
TruncDiv(a, b) == IF a >= 0 THEN a \div b ELSE -((-a) \div b)

Clamp127(note) == IF note < 0 THEN 0 ELSE IF note > 127 THEN 127 ELSE note

\* a return that leaves one message behind in the buffer
Silent_Click(mode) == [out |-> <<NoteOff(mode.channel, 0, 0)>>, mode |-> mode]

\* return with nothing appended to the output buffer
Silent(mode) == [out |-> <<>>, mode |-> mode]

Mode0_processEvent(mode, trackIndex, data) == Silent(mode)

drumNotes == <<36, 38, 42, 46, 43, 47, 49, 51>>

Mode1_processEvent(mode, trackIndex, data) ==
  IF trackIndex >= 8 \/ ~GetSwitch(data) THEN Silent(mode)
  ELSE
    LET note == drumNotes[trackIndex + 1]
        velocity == IF GetPot(data, 0) = 0 THEN 100 ELSE GetPot(data, 0)
        flamAmount == GetPot(data, 1)
        pan == GetPot(data, 3)
        noteLength == 10 + (GetPot(data, 2) * 1990) \div 127
        flamDelay == 5 + (flamAmount * 45) \div 127
        flamVelocity == (velocity * 60) \div 100
        hit == IF flamAmount > 0
               THEN <<NoteOn(mode.channel, note, flamVelocity, 0),
                      NoteOff(mode.channel, note, noteLength \div 3),
                      NoteOn(mode.channel, note, velocity, flamDelay),
                      NoteOff(mode.channel, note, flamDelay + noteLength)>>
               ELSE <<NoteOn(mode.channel, note, velocity, 0),
                      NoteOff(mode.channel, note, noteLength)>>
    IN [out |-> IF pan > 0
                THEN Append(hit, ControlChange(mode.channel, 10, pan, 0))
                ELSE hit,
        mode |-> mode]

\* lastNote[trackIndex] = note, with every voice written in place of one
Mode2_Remember_EveryVoice(mode, trackIndex, note) ==
  [mode EXCEPT !.lastNote = [i \in Tracks |-> note]]

\* lastNote[trackIndex] = note
Mode2_Remember(mode, trackIndex, note) ==
  [mode EXCEPT !.lastNote[trackIndex] = note]

Mode2_processEvent(mode, trackIndex, data) ==
  IF trackIndex >= 8 THEN Silent(mode)
  ELSE IF ~GetSwitch(data)
  THEN Silent(Mode2_Remember(mode, trackIndex, 0))
  ELSE
    LET raw == 36 + (GetPot(data, 0) * 36) \div 127
        note == IF raw > 72 THEN 72 ELSE raw
        accent == (GetPot(data, 1) * 47) \div 127
        velocity == IF 80 + accent > 127 THEN 127 ELSE 80 + accent
        noteLength == 10 + (GetPot(data, 2) * 1990) \div 127
        slideValue == GetPot(data, 3)
        hasSlide == slideValue > 0 /\ mode.lastNote[trackIndex] > 0
        porta == IF hasSlide
                 THEN <<ControlChange(mode.channel, 65, 127, 0),
                        ControlChange(mode.channel, 5, slideValue, 0)>>
                 ELSE <<ControlChange(mode.channel, 65, 0, 0)>>
    IN [out |-> porta \o <<NoteOn(mode.channel, note, velocity, 0),
                           NoteOff(mode.channel, note, noteLength)>>,
        mode |-> Mode2_Remember(mode, trackIndex, note)]

\* the echo loop of Mode3: i-th pass with the loop variables of the source
RECURSIVE Mode3_Echoes(_, _, _, _, _, _, _, _, _)
Mode3_Echoes(out, i, numEchoes, channel, baseNote, pitchMod, baseDelayMs, velocity, loop) ==
  IF i >= numEchoes THEN out
  ELSE
    LET echoNote == Clamp127(baseNote + pitchMod * i)
        echoVelocity == IF velocity < 10 THEN 10 ELSE velocity
        half == baseDelayMs \div 2
        noteLength == IF half < 50 THEN 50 ELSE half
    IN Mode3_Echoes(
         out \o <<NoteOn(channel, echoNote, echoVelocity, loop.echoDelay),
                  NoteOff(channel, echoNote, loop.echoDelay + noteLength)>>,
         i + 1, numEchoes, channel, baseNote, pitchMod, baseDelayMs,
         (velocity * 4) \div 5,
         [echoDelay |-> loop.echoDelay + baseDelayMs * loop.multiplier,
          multiplier |-> loop.multiplier * 2])

Mode3_processEvent(mode, trackIndex, data) ==
  IF trackIndex >= 8 \/ ~GetSwitch(data) THEN Silent(mode)
  ELSE
    LET raw == 24 + (GetPot(data, 0) * 72) \div 127
        baseNote == IF raw > 96 THEN 96 ELSE raw
        delaySteps == 1 + (GetPot(data, 1) * 15) \div 127
        numEchoes == 1 + (GetPot(data, 2) * 7) \div 127
        pitchMod == TruncDiv((GetPot(data, 3) - 64) * 12, 64)
    IN [out |-> Mode3_Echoes(<<>>, 0, numEchoes, mode.channel, baseNote,
                             pitchMod, delaySteps * 125, 100,
                             [echoDelay |-> 0, multiplier |-> 1]),
        mode |-> mode]

\* scales of Mode4, by scaleValue
Mode4_Scale(scaleValue) ==
  IF scaleValue < 16 THEN <<0, 2, 4, 5, 7, 9, 11>>
  ELSE IF scaleValue < 32 THEN <<0, 2, 3, 5, 7, 8, 10>>
  ELSE IF scaleValue < 48 THEN <<0, 2, 3, 5, 7, 9, 10>>
  ELSE IF scaleValue < 64 THEN <<0, 1, 3, 5, 7, 8, 10>>
  ELSE IF scaleValue < 80 THEN <<0, 2, 4, 5, 7, 9, 10>>
  ELSE IF scaleValue < 96 THEN <<0, 2, 4, 7, 9>>
  ELSE IF scaleValue < 112 THEN <<0, 3, 5, 7, 10>>
  ELSE <<0, 1, 2, 3, 4, 5, 6, 7, 8, 9, 10, 11>>

\* the i-th note of an arpeggio of numNotes notes
Mode4_Note(rootNote, scale, numNotes, goingUp, i) ==
  LET scaleDegree == IF goingUp THEN i % (Len(scale) * 3)
                     ELSE (numNotes - 1 - i) % (Len(scale) * 3)
      octave == scaleDegree \div Len(scale)
      position == scaleDegree % Len(scale)
  IN Clamp127(rootNote + octave * 12 + scale[position + 1])

\* mutant: one direction flag for all the voices
Mode4_processEvent_OneFlag(mode, trackIndex, data) ==
  IF trackIndex >= 8 \/ ~GetSwitch(data) THEN Silent(mode)
  ELSE
    LET raw == 24 + (GetPot(data, 0) * 72) \div 127
        rootNote == IF raw > 96 THEN 96 ELSE raw
        scale == Mode4_Scale(GetPot(data, 1))
        noteDuration == 20 + (GetPot(data, 2) * 380) \div 127
        count == 2 + (GetPot(data, 3) * 14) \div 127
        numNotes == IF count < 2 THEN 2 ELSE IF count > 16 THEN 16 ELSE count
        goingUp == mode.direction[trackIndex]
        velocity(i) == IF 100 - i * 5 < 60 THEN 60 ELSE 100 - i * 5
        note(i) == Mode4_Note(rootNote, scale, numNotes, goingUp, i)
    IN [out |-> [k \in 1 .. 2 * numNotes |->
                   LET i == (k - 1) \div 2 IN
                   IF k % 2 = 1
                   THEN NoteOn(mode.channel, note(i), velocity(i),
                               i * noteDuration)
                   ELSE NoteOff(mode.channel, note(i),
                                i * noteDuration + noteDuration)],
        mode |-> [mode EXCEPT !.direction = [t \in DOMAIN @ |-> ~goingUp]]]

Mode4_processEvent(mode, trackIndex, data) ==
  IF trackIndex >= 8 \/ ~GetSwitch(data) THEN Silent(mode)
  ELSE
    LET raw == 24 + (GetPot(data, 0) * 72) \div 127
        rootNote == IF raw > 96 THEN 96 ELSE raw
        scale == Mode4_Scale(GetPot(data, 1))
        noteDuration == 20 + (GetPot(data, 2) * 380) \div 127
        count == 2 + (GetPot(data, 3) * 14) \div 127
        numNotes == IF count < 2 THEN 2 ELSE IF count > 16 THEN 16 ELSE count
        goingUp == mode.direction[trackIndex]
        velocity(i) == IF 100 - i * 5 < 60 THEN 60 ELSE 100 - i * 5
        note(i) == Mode4_Note(rootNote, scale, numNotes, goingUp, i)
    IN [out |-> [k \in 1 .. 2 * numNotes |->
                   LET i == (k - 1) \div 2 IN
                   IF k % 2 = 1
                   THEN NoteOn(mode.channel, note(i), velocity(i),
                               i * noteDuration)
                   ELSE NoteOff(mode.channel, note(i),
                                i * noteDuration + noteDuration)],
        mode |-> [mode EXCEPT !.direction[trackIndex] = ~@]]

\* scales of Mode5, by scaleValue
Mode5_Scale(scaleValue) ==
  IF scaleValue < 16 THEN <<0, 2, 4, 5, 7, 9, 11>>
  ELSE IF scaleValue < 32 THEN <<0, 2, 3, 5, 7, 8, 10>>
  ELSE IF scaleValue < 48 THEN <<0, 2, 3, 5, 7, 9, 10>>
  ELSE IF scaleValue < 64 THEN <<0, 2, 4, 5, 7, 9, 10>>
  ELSE IF scaleValue < 80 THEN <<0, 3, 5, 6, 7, 10>>
  ELSE IF scaleValue < 96 THEN <<0, 1, 3, 5, 7, 8, 10>>
  ELSE IF scaleValue < 112 THEN <<0, 1, 3, 5, 6, 8, 10>>
  ELSE <<0, 1, 2, 3, 4, 5, 6, 7, 8, 9, 10, 11>>

RECURSIVE getScaleNote(_, _, _)
getScaleNote(root, scale, degree) ==
  IF degree < 0 THEN getScaleNote((root - 12) % 256, scale, degree + Len(scale))
  ELSE Clamp127(root + (degree \div Len(scale)) * 12
                     + scale[(degree % Len(scale)) + 1])

\* one note of a bass figure: on at delta, off noteDuration later
Mode5_Voice(channel, note, velocity, delta, noteDuration) ==
  <<NoteOn(channel, note, velocity, delta),
    NoteOff(channel, note, delta + noteDuration)>>

Mode5_processEvent(mode, trackIndex, data) ==
  IF trackIndex >= 8 \/ ~GetSwitch(data) THEN Silent(mode)
  ELSE
    LET raw == 36 + (GetPot(data, 0) * 36) \div 127
        rootNote == IF raw > 72 THEN 72 ELSE raw
        scale == Mode5_Scale(GetPot(data, 1))
        patternValue == GetPot(data, 2)
        noteDuration == 50 + (GetPot(data, 3) * 950) \div 127
        ch == mode.channel
        deg(d) == getScaleNote(rootNote, scale, d)
        V(note, velocity, delta) ==
          Mode5_Voice(ch, note, velocity, delta, noteDuration)
        out ==
          IF patternValue < 16 THEN V(deg(0), 127, 0)
          ELSE IF patternValue < 32
          THEN V(deg(0), 127, 0) \o V(deg(4), 110, 62)
          ELSE IF patternValue < 48
          THEN V(deg(0), 127, 0) \o V(deg(4), 110, 41) \o V(deg(7), 110, 83)
          ELSE IF patternValue < 64
          THEN V(deg(0), 127, 0) \o V(deg(2), 110, 41) \o V(deg(4), 110, 83)
          ELSE IF patternValue < 80
          THEN V(deg(0), 127, 0) \o V(deg(2), 110, 31) \o V(deg(4), 110, 62)
                 \o V(deg(6), 110, 93)
          ELSE IF patternValue < 96
          THEN V(deg(0), 127, 0) \o V(deg(7), 110, 62)
          ELSE IF patternValue < 112
          THEN <<NoteOn(ch, rootNote - 1, 90, 0),
                 NoteOff(ch, rootNote - 1, noteDuration \div 2)>>
                 \o V(deg(0), 127, 31)
          ELSE V(deg(4), 110, 0) \o V(deg(0), 127, 62)
    IN [out |-> out, mode |-> mode]

\* the virtual call, with the drum machine's slot answering as the
\* arpeggiator
ProcessEvent_Mixup(mode, trackIndex, data) ==
  CASE mode.kind = "Mode0" -> Mode0_processEvent(mode, trackIndex, data)
    [] mode.kind = "Mode1" -> Mode4_processEvent(mode, trackIndex, data)
    [] mode.kind = "Mode2" -> Mode2_processEvent(mode, trackIndex, data)
    [] mode.kind = "Mode3" -> Mode3_processEvent(mode, trackIndex, data)
    [] mode.kind = "Mode4" -> Mode4_processEvent(mode, trackIndex, data)
    [] mode.kind = "Mode5" -> Mode5_processEvent(mode, trackIndex, data)

\* the virtual call modes[modeIndex]->processEvent(...)
ProcessEvent(mode, trackIndex, data) ==
  CASE mode.kind = "Mode0" -> Mode0_processEvent(mode, trackIndex, data)
    [] mode.kind = "Mode1" -> Mode1_processEvent(mode, trackIndex, data)
    [] mode.kind = "Mode2" -> Mode2_processEvent(mode, trackIndex, data)
    [] mode.kind = "Mode3" -> Mode3_processEvent(mode, trackIndex, data)
    [] mode.kind = "Mode4" -> Mode4_processEvent(mode, trackIndex, data)
    [] mode.kind = "Mode5" -> Mode5_processEvent(mode, trackIndex, data)

(***************************************************************************)
(* Sequencer                                                               *)
(***************************************************************************)
Modes == 0 .. (NUM_MODES - 1)

\* Sequencer(s, hw, sched), holding the Song s; the interval and anchor
\* fields are first written by init().
Constructed(s) ==
  /\ song = s
  /\ modes = [i \in Modes |-> NullMode]
  /\ currentPatterns = [i \in Modes |-> 0]
  /\ currentStep = 0
  /\ currentTrack = 0
  /\ currentMode = 1
  /\ sequencePosition = 0
  /\ bpm = [num |-> 120, den |-> 1]
  /\ stepInterval = 0
  /\ clockInterval = 0
  /\ lastStepTime = 0
  /\ lastClockTime = 0
  /\ sendClock = TRUE
  /\ isPlaying = FALSE
  /\ led = 0
  /\ lastSliderDebug = 0
  /\ stops = <<>>
  /\ heard = <<>>
  /\ eventBuffer = EmptyBuffer
  /\ registry = EmptyRegistry
  /\ started = <<>>

(***************************************************************************)
(* The scheduler driven directly by its caller                             *)
(***************************************************************************)
\* inputs of the direct calls
TickSteps == {1, 3}

InitSched ==
  /\ elapsed = 0
  /\ events = [i \in Slots |-> EmptySlot]
  /\ admitted = <<>>
  /\ updTimes = <<>>
  /\ cleared = {}
  /\ sink = <<>>
  /\ calls = 0
  /\ requests = <<>>
  /\ last = [op |-> "construct", ret |-> 0]

\* history record of one message asked for at time t
RequestAt(op, type, channel, data1, data2, delta, t) ==
  [op |-> op, type |-> type, channel |-> channel, data1 |-> data1,
   data2 |-> data2, delta |-> delta, at |-> t]

Request(op, type, channel, data1, data2, delta) ==
  RequestAt(op, type, channel, data1, data2, delta, now)

\* common tail of a call that asks for slots
Requested(op, reqs, sch, ret) ==
  /\ events' = sch.events
  /\ admitted' = sch.admitted
  /\ calls' = calls + 1
  /\ requests' = requests \o reqs
  /\ last' = [op |-> op, ret |-> ret]
  /\ UNCHANGED <<now, elapsed, updTimes, cleared, sink>>
  /\ UNCHANGED seqVars

Sch == [events |-> events, admitted |-> admitted]

MIDIScheduler_note(channel, pitch, velocity, delta) ==
  Requested("note",
            <<Request("note", "NOTE_ON", channel, pitch, velocity, delta)>>,
            Note(Sch, channel, pitch, velocity, delta, now, Len(updTimes)), 0)

MIDIScheduler_off(channel, pitch, delta) ==
  Requested("off", <<Request("off", "NOTE_OFF", channel, pitch, 0, delta)>>,
            Off(Sch, channel, pitch, delta, now, Len(updTimes)), 0)

MIDIScheduler_cc(channel, controller, value, delta) ==
  Requested("cc", <<Request("cc", "CC", channel, controller, value, delta)>>,
            Cc(Sch, channel, controller, value, delta, now, Len(updTimes)), 0)

MIDIScheduler_stopall(channel, delta) ==
  Requested("stopall", <<Request("stopall", "STOP_ALL", channel, 0, 0, delta)>>,
            Stopall(Sch, channel, delta, now, Len(updTimes)), 0)

MIDIScheduler_scheduleAll(buffer) ==
  LET r == ScheduleAll(Sch, buffer, now, Len(updTimes))
  IN Requested("scheduleAll",
               [i \in 1 .. Len(buffer) |->
                  Request("scheduleAll", buffer[i].type, buffer[i].channel,
                          buffer[i].data1, buffer[i].data2, buffer[i].delta)],
               r.sch, r.scheduled)

MIDIScheduler_update ==
  /\ sink' = sink \o UpdateCalls(events, now, Len(updTimes) + 1)
  /\ events' = UpdateEvents(events, now)
  /\ updTimes' = Append(updTimes, now)
  /\ calls' = calls + 1
  /\ last' = [op |-> "update", ret |-> 0]
  /\ UNCHANGED <<now, elapsed, admitted, cleared, requests>>
  /\ UNCHANGED seqVars

MIDIScheduler_clear ==
  /\ events' = ClearEvents(events)
  /\ cleared' = cleared \cup ActiveIds(events)
  /\ calls' = calls + 1
  /\ last' = [op |-> "clear", ret |-> 0]
  /\ UNCHANGED <<now, elapsed, admitted, updTimes, sink, requests>>
  /\ UNCHANGED seqVars

\* millis() advances
Millis_advance(d) ==
  /\ now' = Wrap(now + d)
  /\ elapsed' = elapsed + d
  /\ last' = [op |-> "tick", ret |-> 0]
  /\ UNCHANGED <<events, admitted, updTimes, cleared, sink, calls, requests>>
  /\ UNCHANGED seqVars

\* buffers handed to scheduleAll by the direct caller
CallerBuffers ==
  { <<MIDIEvent("NOTE_ON", 0, 60, 100, 0), MIDIEvent("NOTE_ON", 3, 62, 90, 0),
      MIDIEvent("NOTE_OFF", 3, 62, 0, 2)>>,
    <<MIDIEvent("CC", 5, 7, 64, 4), MIDIEvent("STOP_ALL", 17, 0, 0, 0)>> }

\* <<channel, delta>> of the direct calls
NoteInputs == {<<1, 0>>, <<16, 3>>}
OffInputs == {<<1, 1>>}
CcInputs == {<<0, 0>>}
StopallInputs == {<<2, 0>>}

DoNote == \E i \in NoteInputs :
            calls < MaxCalls /\ MIDIScheduler_note(i[1], 60, 100, i[2])
DoOff == \E i \in OffInputs :
            calls < MaxCalls /\ MIDIScheduler_off(i[1], 60, i[2])
DoCc == \E i \in CcInputs :
            calls < MaxCalls /\ MIDIScheduler_cc(i[1], 10, 64, i[2])
DoStopall == \E i \in StopallInputs :
            calls < MaxCalls /\ MIDIScheduler_stopall(i[1], i[2])
DoScheduleAll == \E b \in CallerBuffers :
            calls < MaxCalls /\ MIDIScheduler_scheduleAll(b)
DoUpdate == calls < MaxCalls /\ MIDIScheduler_update
DoClear == calls < MaxCalls /\ MIDIScheduler_clear
DoTick == \E d \in TickSteps : elapsed + d <= MaxElapsed /\ Millis_advance(d)

NextSched ==
  \/ DoNote \/ DoOff \/ DoCc \/ DoStopall \/ DoScheduleAll
  \/ DoUpdate \/ DoClear \/ DoTick

\* a run starts at power-up or shortly before the counter wraps
InitDirect ==
  /\ now \in {0, MillisWrap - WrapLead}
  /\ InitSched
  /\ Constructed(EmptySong)

SpecSched == InitDirect /\ [][NextSched]_vars

(***************************************************************************)
(* A burst of schedule calls into an empty pool, then the pool drains      *)
(***************************************************************************)
\* the pool as clear() leaves it after one admitted message
ClearedStart ==
  LET sch == Note([events |-> [i \in Slots |-> EmptySlot], admitted |-> <<>>],
                  1, 60, 100, FillUnit, 0, 0)
  IN /\ events = ClearEvents(sch.events)
     /\ admitted = sch.admitted
     /\ cleared = {1}
     /\ calls = 2
     /\ requests = <<>>
     /\ elapsed = 0 /\ updTimes = <<>> /\ sink = <<>>
     /\ last = [op |-> "clear", ret |-> 0]

InitFill ==
  /\ now = 0
  /\ InitSched \/ ClearedStart
  /\ Constructed(EmptySong)

\* the n-th message of the burst waits n * u ms, u fixed by the first one
BurstDelta(u) ==
  IF requests = <<>> THEN u ELSE (Len(requests) + 1) * requests[1].delta

InBurst(k) ==
  /\ updTimes = <<>>
  /\ Len(requests) < MaxBurst
  /\ Len(requests) % 4 = k

FillNote == \E u \in {0, FillUnit} :
  InBurst(0) /\ MIDIScheduler_note(1, 60 + (Len(requests) % 12), 100, BurstDelta(u))
FillOff == \E u \in {0, FillUnit} :
  InBurst(1) /\ MIDIScheduler_off(2, 60 + (Len(requests) % 12), BurstDelta(u))
FillCc == \E u \in {0, FillUnit} :
  InBurst(2) /\ MIDIScheduler_cc(16, 7, Len(requests), BurstDelta(u))
FillStopall == \E u \in {0, FillUnit} :
  InBurst(3) /\ MIDIScheduler_stopall(3, BurstDelta(u))

\* millis() advances at most once while the burst is still being made
FillTick ==
  /\ requests # <<>>
  /\ elapsed < FillHorizon
  /\ updTimes = <<>> => elapsed = 0
  /\ now' = Wrap(now + FillStep)
  /\ elapsed' = elapsed + FillStep
  /\ last' = [op |-> "tick", ret |-> 0]
  /\ UNCHANGED <<events, admitted, updTimes, cleared, sink, calls, requests>>
  /\ UNCHANGED seqVars

FillUpdate ==
  /\ requests # <<>>
  /\ Len(updTimes) < MaxDrains
  /\ MIDIScheduler_update

NextFill ==
  \/ FillNote \/ FillOff \/ FillCc \/ FillStopall \/ FillTick \/ FillUpdate

SpecFill == InitFill /\ [][NextFill]_vars

(***************************************************************************)
(* Claims about the scheduler                                              *)
(***************************************************************************)
Delivered(id) == \E k \in 1 .. Len(sink) : sink[k].id = id

\* C1: every message admitted to the pool is delivered to the sink exactly
\* once, by the first update() after its admission whose current time is >=
\* its fire time; no update() before that delivers it, none delivers it a
\* second time, it stays pending until then unless clear() discarded it, and
\* once delivered it no longer holds its slot.
C1_DeliveredOnceWhenDue ==
  /\ \A k \in 1 .. Len(sink) :
       LET c == sink[k]
           m == admitted[c.id]
       IN /\ c = SinkCall([type |-> m.type, channel |-> m.channel,
                            data1 |-> m.data1, data2 |-> m.data2,
                            id |-> c.id], c.upd)
          /\ c.upd > m.epoch
          /\ updTimes[c.upd] >= m.exec
          /\ \A u \in (m.epoch + 1) .. (c.upd - 1) : updTimes[u] < m.exec
          /\ \A j \in 1 .. Len(sink) : sink[j].id = c.id => j = k
          /\ ~(events[m.slot].active /\ events[m.slot].id = c.id)
  /\ \A id \in 1 .. Len(admitted) :
       LET m == admitted[id]
       IN (id \notin cleared /\ ~Delivered(id)) =>
            /\ events[m.slot].active
            /\ events[m.slot].id = id
            /\ events[m.slot].executeTime = m.exec
            /\ \A u \in (m.epoch + 1) .. Len(updTimes) : updTimes[u] < m.exec

\* C1 witness: a delayed message was delivered and a later schedule call
\* occupies the slot it held.
C1_Witness ==
  \E k \in 1 .. Len(sink), id2 \in 1 .. Len(admitted) :
    LET m == admitted[sink[k].id]
    IN /\ m.delta > 0
       /\ id2 > sink[k].id
       /\ admitted[id2].slot = m.slot
       /\ events[m.slot].active
       /\ events[m.slot].id = id2

\* the messages asked for since the pool was last empty at construction or
\* clear(), all on valid channels
Pending == {i \in Slots : events[i].active}
BurstBase == Cardinality(cleared)
Min(a, b) == IF a < b THEN a ELSE b

\* C2: after N schedule calls into an empty pool with no update() between,
\* exactly the first min(N, 64) messages hold slots, in call order and
\* unaltered, so the 65th and later left no trace; the sink never gets more
\* than 64 calls, and gets exactly min(N, 64) once every delay has elapsed.
C2_OnlyFirst64Scheduled ==
  LET n == Len(requests)
      k == Min(n, MAX_SCHEDULED_EVENTS)
  IN /\ Len(admitted) = BurstBase + k
     /\ \A j \in 1 .. k :
          LET r == requests[j]
              m == admitted[BurstBase + j]
          IN /\ m.slot = j - 1
             /\ <<m.type, m.channel, m.data1, m.data2, m.exec>> =
                  <<r.type, r.channel, r.data1, r.data2, Wrap(r.at + r.delta)>>
             /\ updTimes = <<>> =>
                  events[j - 1] =
                    [type |-> r.type, channel |-> r.channel, data1 |-> r.data1,
                     data2 |-> r.data2, executeTime |-> Wrap(r.at + r.delta),
                     active |-> TRUE, id |-> BurstBase + j]
     /\ updTimes = <<>> => Cardinality(Pending) = k
     /\ Cardinality(Pending) + Len(sink) = k
     /\ Len(sink) <= MAX_SCHEDULED_EVENTS
     /\ (updTimes # <<>> /\ \A id \in 1 .. Len(admitted) :
            updTimes[Len(updTimes)] >= admitted[id].exec)
          => Len(sink) = k

\* C2 witness: 65 or more messages were asked for and the drained pool made
\* 64 sink calls.
C2_Witness ==
  /\ Len(requests) > MAX_SCHEDULED_EVENTS
  /\ Len(sink) = MAX_SCHEDULED_EVENTS
  /\ Pending = {}

(***************************************************************************)
(* Sequencer: the methods, as functions of the state q they work on        *)
(***************************************************************************)
\* the state the methods read and write; log is history of the call
Q ==
  [song |-> song, modes |-> modes, currentPatterns |-> currentPatterns,
   currentStep |-> currentStep, currentTrack |-> currentTrack,
   currentMode |-> currentMode, sequencePosition |-> sequencePosition,
   bpm |-> bpm, stepInterval |-> stepInterval,
   clockInterval |-> clockInterval, lastStepTime |-> lastStepTime,
   lastClockTime |-> lastClockTime, sendClock |-> sendClock,
   isPlaying |-> isPlaying, led |-> led, lastSliderDebug |-> lastSliderDebug,
   sch |-> Sch, requests |-> requests, sink |-> sink,
   log |-> [steps |-> <<>>, addFailed |-> 0, pulsed |-> FALSE,
           invoked |-> <<>>, trace |-> <<>>, buffered |-> <<>>]]

\* t - anchor on unsigned long
Since(t, anchor) == (t - anchor) % MillisWrap

\* usbMIDI calls made outside the scheduler carry id 0
DirectCC(controller, value, channel) ==
  [call |-> "sendControlChange", a |-> controller, b |-> value,
   channel |-> channel, id |-> 0, upd |-> 0]

\* usbMIDI.sendRealTime: Clock = 248, Start = 250, Stop = 252
RealTime(code) ==
  [call |-> "sendRealTime", a |-> code, b |-> 0, channel |-> 0, id |-> 0,
   upd |-> 0]

\* (unsigned long)((60000.0 / bpm) / 4.0) and the same over 24.0
CalculateIntervals(q) ==
  [q EXCEPT !.stepInterval = (15000 * q.bpm.den) \div q.bpm.num,
            !.clockInterval = (2500 * q.bpm.den) \div q.bpm.num]

\* mutant: the tempo is taken as given
SetBPM_Unclamped(q, newBPM) == CalculateIntervals([q EXCEPT !.bpm = newBPM])

SetBPM(q, newBPM) ==
  LET clamped == IF newBPM.num < 20 * newBPM.den THEN [num |-> 20, den |-> 1]
                 ELSE IF newBPM.num > 800 * newBPM.den
                 THEN [num |-> 800, den |-> 1]
                 ELSE newBPM
  IN CalculateIntervals([q EXCEPT !.bpm = clamped])

\* the tempo the tempo pot asks for: linear below the middle, quadratic above
TempoOfPot(tempoPot) ==
  IF 2 * tempoPot < 127
  THEN [num |-> 2540 + 200 * tempoPot, den |-> 127]
  ELSE [num |-> 120 * 16129
                  + 680 * (2 * tempoPot - 127) * (2 * tempoPot - 127),
        den |-> 16129]

\* as the class comment has it: "Event is recorded at current step"
RecordEvent_AtCurrentStep(q, buttonIndex, sliders) ==
  LET pattern == q.currentPatterns[q.currentMode]
      old == ReadEvent(q.song, q.currentMode, pattern, q.currentTrack,
                       q.currentStep)
      new == SetPot(SetPot(SetPot(SetPot(ToggleSwitch(old), 0, sliders[1]),
                                  1, sliders[2]), 2, sliders[3]),
                    3, sliders[4])
  IN [q EXCEPT !.song = WriteEvent(q.song, q.currentMode, pattern,
                                   q.currentTrack, q.currentStep, new)]

\* recordEvent(buttonIndex, state): state is not read
RecordEvent(q, buttonIndex, sliders) ==
  LET pattern == q.currentPatterns[q.currentMode]
      old == ReadEvent(q.song, q.currentMode, pattern, q.currentTrack,
                       buttonIndex)
      new == SetPot(SetPot(SetPot(SetPot(ToggleSwitch(old), 0, sliders[1]),
                                  1, sliders[2]), 2, sliders[3]),
                    3, sliders[4])
  IN [q EXCEPT !.song = WriteEvent(q.song, q.currentMode, pattern,
                                   q.currentTrack, buttonIndex, new)]

\* for (i = 0; i < 16; i++) if (hardware->readButtonPress(i)) ...
RecordButtons(q, inputs) ==
  For(0, 15, q, LAMBDA q1, i :
        IF i \in inputs.buttons THEN RecordEvent(q1, i, inputs.sliders)
        ELSE q1)

\* Pot 0: tempo
TempoPot(q, tempoPot) ==
  IF tempoPot >= 0 THEN SetBPM(q, TempoOfPot(tempoPot)) ELSE q

\* Pot 1: mode selection, through setCurrentMode
ModePot(q, modePot) ==
  LET newMode == IF (modePot * 15) \div 128 > 14 THEN 14
                 ELSE (modePot * 15) \div 128
  IN IF modePot >= 0
     THEN [q EXCEPT !.currentMode = BitAnd(newMode, 15),
                    !.sink = Append(@, DirectCC(1, newMode, 16))]
     ELSE q

\* Pot 2: pattern selection for the mode being edited
PatternPot(q, patternPot) ==
  LET newPattern == IF (patternPot * 32) \div 128 > 31 THEN 31
                    ELSE (patternPot * 32) \div 128
  IN IF patternPot >= 0
     THEN [q EXCEPT !.currentPatterns[q.currentMode] = newPattern,
                    !.sink = Append(@, DirectCC(2, newPattern, 16))]
     ELSE q

\* Pot 3: track selection, through setCurrentTrack
TrackPot(q, trackPot) ==
  LET newTrack == IF (trackPot * 8) \div 128 > 7 THEN 7
                  ELSE (trackPot * 8) \div 128
  IN IF trackPot >= 0
     THEN [q EXCEPT !.currentTrack = BitAnd(newTrack, 7),
                    !.sink = Append(@, DirectCC(3, newTrack, 16))]
     ELSE q

\* the slider debug CCs, at most every 50 ms
SliderDebug(q, sliders, t) ==
  IF Since(t, q.lastSliderDebug) > 50
  THEN [q EXCEPT !.lastSliderDebug = t,
                 !.sink = @ \o <<DirectCC(20, sliders[1], 2),
                                 DirectCC(21, sliders[2], 2),
                                 DirectCC(22, sliders[3], 2),
                                 DirectCC(23, sliders[4], 2)>>]
  ELSE q

\* inputs = what Hardware returns during this call: buttons pressed, the
\* four readPotChange results (-1: no change) and the four sliders
HandleInput(q, inputs, t) ==
  Bind(RecordButtons(q, inputs), LAMBDA q0 :
  Bind(TempoPot(q0, inputs.pots[1]), LAMBDA q1 :
  Bind(ModePot(q1, inputs.pots[2]), LAMBDA q2 :
  Bind(PatternPot(q2, inputs.pots[3]), LAMBDA q3 :
  Bind(TrackPot(q3, inputs.pots[4]), LAMBDA q4 :
    SliderDebug(q4, inputs.sliders, t))))))

SendClockPulse(q, t) ==
  [q EXCEPT !.lastClockTime = t,
            !.sink = Append(@, RealTime(248)),
            !.log.pulsed = TRUE]

\* mutant: the parameter is taken as the pattern number, unscaled
TargetPattern_Unscaled(data) ==
  IF GetPot(data, 0) > 31 THEN 31 ELSE GetPot(data, 0)

\* (getPot(0) * 32) / 128, capped at 31
TargetPattern(data) ==
  IF (GetPot(data, 0) * 32) \div 128 > 31 THEN 31
  ELSE (GetPot(data, 0) * 32) \div 128

\* mutant: the target is written to mode 0 as well
SelectPattern_All(patterns, patternNumber) == [i \in Modes |-> patternNumber]

\* for (i = 1; i < 15; i++) currentPatterns[i] = patternNumber
SelectPattern(patterns, patternNumber) ==
  [i \in Modes |-> IF i >= 1 THEN patternNumber ELSE patterns[i]]

\* mutant: an empty slot rewinds the cursor and selects pattern 0
UpdatePatternFromSequence_Rewinds(q) ==
  LET sequenceEvent == ReadEvent(q.song, 0, 0, 0, q.sequencePosition)
      firstEvent == ReadEvent(q.song, 0, 0, 0, 0)
  IN IF GetSwitch(sequenceEvent)
     THEN [q EXCEPT
             !.currentPatterns = SelectPattern(@, TargetPattern(sequenceEvent)),
             !.sequencePosition = IF @ + 1 >= 16 THEN 0 ELSE @ + 1]
     ELSE [q EXCEPT
             !.sequencePosition = 0,
             !.currentPatterns =
               SelectPattern(@, IF GetSwitch(firstEvent)
                                THEN TargetPattern(firstEvent) ELSE 0)]

\* mutant: an empty meta-track puts mode 0 back on pattern 0
UpdatePatternFromSequence_ClearsMode0(q) ==
  LET sequenceEvent == ReadEvent(q.song, 0, 0, 0, q.sequencePosition)
      firstEvent == ReadEvent(q.song, 0, 0, 0, 0)
  IN IF GetSwitch(sequenceEvent)
     THEN [q EXCEPT
             !.currentPatterns = SelectPattern(@, TargetPattern(sequenceEvent)),
             !.sequencePosition = IF @ + 1 >= 16 THEN 0 ELSE @ + 1]
     ELSE IF GetSwitch(firstEvent)
     THEN [q EXCEPT
             !.sequencePosition = 0,
             !.currentPatterns = SelectPattern(@, TargetPattern(firstEvent))]
     ELSE [q EXCEPT !.sequencePosition = 0, !.currentPatterns[0] = 0]

\* mutant: after the empty slot the cursor moves on past slot 0
UpdatePatternFromSequence_ResetMovesOn(q) ==
  LET sequenceEvent == ReadEvent(q.song, 0, 0, 0, q.sequencePosition)
      firstEvent == ReadEvent(q.song, 0, 0, 0, 0)
  IN IF GetSwitch(sequenceEvent)
     THEN [q EXCEPT
             !.currentPatterns = SelectPattern(@, TargetPattern(sequenceEvent)),
             !.sequencePosition = IF @ + 1 >= 16 THEN 0 ELSE @ + 1]
     ELSE IF GetSwitch(firstEvent)
     THEN [q EXCEPT
             !.sequencePosition = 1,
             !.currentPatterns = SelectPattern(@, TargetPattern(firstEvent))]
     ELSE [q EXCEPT !.sequencePosition = 0]

\* mutant: an empty slot only rewinds the cursor
UpdatePatternFromSequence_NoReread(q) ==
  LET sequenceEvent == ReadEvent(q.song, 0, 0, 0, q.sequencePosition)
  IN IF GetSwitch(sequenceEvent)
     THEN [q EXCEPT
             !.currentPatterns = SelectPattern(@, TargetPattern(sequenceEvent)),
             !.sequencePosition = IF @ + 1 >= 16 THEN 0 ELSE @ + 1]
     ELSE [q EXCEPT !.sequencePosition = 0]

UpdatePatternFromSequence(q) ==
  LET sequenceEvent == ReadEvent(q.song, 0, 0, 0, q.sequencePosition)
      firstEvent == ReadEvent(q.song, 0, 0, 0, 0)
  IN IF GetSwitch(sequenceEvent)
     THEN [q EXCEPT
             !.currentPatterns = SelectPattern(@, TargetPattern(sequenceEvent)),
             !.sequencePosition = IF @ + 1 >= 16 THEN 0 ELSE @ + 1]
     ELSE IF GetSwitch(firstEvent)
     THEN [q EXCEPT
             !.sequencePosition = 0,
             !.currentPatterns = SelectPattern(@, TargetPattern(firstEvent))]
     ELSE [q EXCEPT !.sequencePosition = 0]

\* history: call was made, and left the cursors, the selected patterns and
\* the LED as recorded
Traced(q, call) ==
  [q EXCEPT !.log.trace = Append(@, [call |-> call, step |-> q.currentStep,
                                     position |-> q.sequencePosition,
                                     patterns |-> q.currentPatterns,
                                     led |-> q.led])]

\* mutant: the protocol runs at every step
AdvanceStep_ProtocolEveryStep(q) ==
  Bind(Traced(UpdatePatternFromSequence(
                [q EXCEPT !.currentStep = (@ + 1) % 16]),
              "updatePatternFromSequence"),
       LAMBDA q1 :
         Traced([q1 EXCEPT !.led = IF q1.currentStep = 0 THEN 255 ELSE 5],
                "setLEDBrightness"))

AdvanceStep(q) ==
  IF (q.currentStep + 1) % 16 = 0
  THEN Bind(Traced(UpdatePatternFromSequence([q EXCEPT !.currentStep = 0]),
                   "updatePatternFromSequence"),
            LAMBDA q1 : Traced([q1 EXCEPT !.led = 255], "setLEDBrightness"))
  ELSE Traced([q EXCEPT !.currentStep = (@ + 1) % 16, !.led = 5],
              "setLEDBrightness")

\* scheduler->scheduleAll(eventBuffer) inside processStep
Flush(q, buffer, t, epoch) ==
  [q EXCEPT
     !.sch = ScheduleAll(q.sch, buffer.events, t, epoch).sch,
     !.requests = @ \o [i \in 1 .. Len(buffer.events) |->
                          RequestAt("scheduleAll", buffer.events[i].type,
                                    buffer.events[i].channel,
                                    buffer.events[i].data1,
                                    buffer.events[i].data2,
                                    buffer.events[i].delta, t)]]

\* mutant: the buffer is flushed only once it is full
FlushNeeded_WhenFull(buffer) == Remaining(buffer) < 1

\* if (eventBuffer.remaining() < 8)
FlushNeeded(buffer) == Remaining(buffer) < 8

\* history: processEvent was invoked on slot modeIndex for trackIndex with
\* event
Invoked(q, modeIndex, trackIndex, event) ==
  [q EXCEPT !.log.invoked = Append(@, [mode |-> modeIndex,
                                       track |-> trackIndex,
                                       event |-> event])]

\* history: processEvent found held messages in the buffer and produced out
Buffered(q, held, out) ==
  [q EXCEPT !.log.buffered = Append(@, [held |-> held, out |-> out])]

\* mutant: every mode plays its pattern 0
ProcessTrack_Pattern0(r, modeIndex, trackIndex, t, epoch) ==
  Bind(ReadEvent(r.q.song, modeIndex, 0, trackIndex, r.q.currentStep),
       LAMBDA event :
  Bind(ProcessEvent(r.q.modes[modeIndex], trackIndex, event), LAMBDA p :
  Bind(BufferAddAll(r.buffer, p.out), LAMBDA buffer :
  Bind(Buffered(Invoked([r.q EXCEPT !.modes[modeIndex] = p.mode],
                        modeIndex, trackIndex, event),
                Len(r.buffer.events), p.out),
       LAMBDA q1 :
    IF FlushNeeded(buffer)
    THEN [q |-> Flush(q1, buffer, t, epoch),
          buffer |-> [buffer EXCEPT !.events = <<>>]]
    ELSE [q |-> q1, buffer |-> buffer]))))

\* One pass of the inner loop of processStep; r = [q, buffer].
ProcessTrack(r, modeIndex, trackIndex, t, epoch) ==
  Bind(ReadEvent(r.q.song, modeIndex, r.q.currentPatterns[modeIndex],
                 trackIndex, r.q.currentStep),
       LAMBDA event :
  Bind(ProcessEvent(r.q.modes[modeIndex], trackIndex, event), LAMBDA p :
  Bind(BufferAddAll(r.buffer, p.out), LAMBDA buffer :
  Bind(Buffered(Invoked([r.q EXCEPT !.modes[modeIndex] = p.mode],
                        modeIndex, trackIndex, event),
                Len(r.buffer.events), p.out),
       LAMBDA q1 :
    IF FlushNeeded(buffer)
    THEN [q |-> Flush(q1, buffer, t, epoch),
          buffer |-> [buffer EXCEPT !.events = <<>>]]
    ELSE [q |-> q1, buffer |-> buffer]))))

\* for (modeIndex ...) { if (modes[modeIndex] == nullptr) continue;
\*   for (trackIndex ...) { ... } }, then the last scheduleAll
ProcessStep(q, t, epoch) ==
  Bind(For(0, NUM_MODES - 1,
           [q |-> Traced(q, "processStep"), buffer |-> EmptyBuffer],
           LAMBDA r1, modeIndex :
             IF r1.q.modes[modeIndex].kind = "nullptr" THEN r1
             ELSE For(0, NUM_TRACKS - 1, r1,
                      LAMBDA r2, trackIndex :
                        ProcessTrack(r2, modeIndex, trackIndex, t, epoch))),
       LAMBDA r :
  Bind(IF r.buffer.events # <<>> THEN Flush(r.q, r.buffer, t, epoch)
       ELSE r.q,
       LAMBDA q1 :
    [q1 EXCEPT !.log.addFailed = @ + r.buffer.failed,
               !.log.steps = Append(@, q1.currentStep)]))

\* mutant: the anchor jumps to the current time
NextAnchor_Now(anchor, interval, currentTime) == currentTime

\* lastStepTime += stepInterval
NextAnchor(anchor, interval, currentTime) == Wrap(anchor + interval)

\* One pass of the while loop of update().
Step(q, currentTime, epoch) ==
  Bind(AdvanceStep([q EXCEPT !.lastStepTime =
                      NextAnchor(@, q.stepInterval, currentTime)]),
       LAMBDA q1 : ProcessStep(q1, currentTime, epoch))

\* while (currentTime - lastStepTime >= stepInterval) { ... }
RECURSIVE StepLoop(_, _, _)
StepLoop(q, currentTime, epoch) ==
  IF Since(currentTime, q.lastStepTime) >= q.stepInterval
  THEN Bind(Step(q, currentTime, epoch),
            LAMBDA q1 : StepLoop(q1, currentTime, epoch))
  ELSE q

\* scheduler->update() as the last thing Sequencer::update does
SchedulerUpdate(q, currentTime, upd) ==
  [q EXCEPT !.sink = @ \o UpdateCalls(q.sch.events, currentTime, upd),
            !.sch.events = UpdateEvents(@, currentTime)]

\* if (isPlaying && sendClock) if (currentTime - lastClockTime >= ...)
ClockDue(q, currentTime) ==
  /\ q.isPlaying /\ q.sendClock
  /\ Since(currentTime, q.lastClockTime) >= q.clockInterval

\* mutant: the step loop does not ask whether the sequencer is playing
Update_StepsWhileStopped(q, inputs, currentTime, epoch) ==
  Bind(HandleInput(q, inputs, currentTime), LAMBDA q1 :
  Bind(IF ClockDue(q1, currentTime) THEN SendClockPulse(q1, currentTime)
       ELSE q1,
       LAMBDA q2 :
  Bind(StepLoop(q2, currentTime, epoch),
       LAMBDA q3 : SchedulerUpdate(q3, currentTime, epoch + 1))))

Update(q, inputs, currentTime, epoch) ==
  Bind(HandleInput(q, inputs, currentTime), LAMBDA q1 :
  Bind(IF ClockDue(q1, currentTime) THEN SendClockPulse(q1, currentTime)
       ELSE q1,
       LAMBDA q2 :
  Bind(IF q2.isPlaying THEN StepLoop(q2, currentTime, epoch) ELSE q2,
       LAMBDA q3 : SchedulerUpdate(q3, currentTime, epoch + 1))))

\* mutant: start() also empties the pool
Start_ClearsPool(q, t) ==
  [q EXCEPT !.isPlaying = TRUE, !.currentStep = 0, !.lastStepTime = t,
            !.lastClockTime = t, !.sink = Append(@, RealTime(250)),
            !.sch.events = ClearEvents(@)]

\* mutant: start() leaves the step cursor where it is
Start_KeepsCursor(q, t) ==
  [q EXCEPT !.isPlaying = TRUE, !.lastStepTime = t,
            !.lastClockTime = t, !.sink = Append(@, RealTime(250))]

Start(q, t) ==
  [q EXCEPT !.isPlaying = TRUE, !.currentStep = 0, !.lastStepTime = t,
            !.lastClockTime = t, !.sink = Append(@, RealTime(250))]

\* One pass of the loop of stop() over a registered slot; r = [q, asked],
\* asked = the admitted id (0: none) of each stop-all asked for (history).
StopMode(r, i, t, epoch) ==
  Bind(Stopall(r.q.sch, r.q.modes[i].channel, 0, t, epoch), LAMBDA sch :
    [q |-> [r.q EXCEPT
              !.sch = sch,
              !.requests = Append(@, RequestAt("stopall", "STOP_ALL",
                                               r.q.modes[i].channel, 0, 0, 0,
                                               t))],
     asked |-> Append(r.asked,
                      [mode |-> i, channel |-> r.q.modes[i].channel,
                       id |-> IF Len(sch.admitted) > Len(r.q.sch.admitted)
                              THEN Len(sch.admitted) ELSE 0])])

\* for (i = 0; i < 15; i++) if (modes[i] != nullptr) ...
StopModes(r, t, epoch) ==
  For(0, NUM_MODES - 1, r, LAMBDA r1, i :
        IF r1.q.modes[i].kind = "nullptr" THEN r1
        ELSE StopMode(r1, i, t, epoch))

\* mutant: stop() also empties the pool
Stop_ClearsPool(q, t, epoch) ==
  StopModes(
    [q |-> [q EXCEPT !.isPlaying = FALSE,
                     !.sink = Append(@, RealTime(252)),
                     !.sch.events = ClearEvents(@)],
     asked |-> <<>>],
    t, epoch)

Stop(q, t, epoch) ==
  StopModes(
    [q |-> [q EXCEPT !.isPlaying = FALSE,
                     !.sink = Append(@, RealTime(252))],
     asked |-> <<>>],
    t, epoch)

\* init(): the interpreters registered, the intervals, the anchors
InitSequencer(q, registered, t) ==
  CalculateIntervals(
    [q EXCEPT !.modes = [i \in Modes |->
                           IF i \in DOMAIN registered THEN registered[i]
                           ELSE q.modes[i]],
              !.lastStepTime = t, !.lastClockTime = t])

(***************************************************************************)
(* Sequencer: the public calls                                             *)
(***************************************************************************)
\* the fields of q written back
Commit(q) ==
  /\ song' = q.song
  /\ modes' = q.modes
  /\ currentPatterns' = q.currentPatterns
  /\ currentStep' = q.currentStep
  /\ currentTrack' = q.currentTrack
  /\ currentMode' = q.currentMode
  /\ sequencePosition' = q.sequencePosition
  /\ bpm' = q.bpm
  /\ stepInterval' = q.stepInterval
  /\ clockInterval' = q.clockInterval
  /\ lastStepTime' = q.lastStepTime
  /\ lastClockTime' = q.lastClockTime
  /\ sendClock' = q.sendClock
  /\ isPlaying' = q.isPlaying
  /\ led' = q.led
  /\ lastSliderDebug' = q.lastSliderDebug
  /\ events' = q.sch.events
  /\ admitted' = q.sch.admitted
  /\ requests' = q.requests
  /\ sink' = q.sink

\* init() has run: it always fills slot 0
Initialized == modes[0].kind # "nullptr"

\* setup(): sequencer.init(); sequencer.setBPM(120.0); sequencer.start()
Setup(q, registered, t) ==
  Bind(InitSequencer(q, registered, t), LAMBDA q1 :
  Bind(SetBPM(q1, [num |-> 120, den |-> 1]), LAMBDA q2 : Start(q2, t)))

Sequencer_setup(registered) ==
  /\ \E q \in {Setup(Q, registered, now)} : Commit(q)
  /\ last' = [op |-> "setup", ret |-> 0]
  /\ started' = Append(started, [at |-> now, epoch |-> Len(updTimes)])
  /\ UNCHANGED <<now, elapsed, updTimes, cleared, stops, heard,
                 eventBuffer, registry>>

Sequencer_start ==
  /\ \E q \in {Start(Q, now)} : Commit(q)
  /\ last' = [op |-> "Sequencer::start", ret |-> 0]
  /\ started' = Append(started, [at |-> now, epoch |-> Len(updTimes)])
  /\ UNCHANGED <<now, elapsed, updTimes, cleared, stops, heard,
                 eventBuffer, registry>>

Sequencer_stop ==
  \E r \in {Stop(Q, now, Len(updTimes))} :
     /\ Commit(r.q)
     /\ stops' = Append(stops,
                        [at |-> now, epoch |-> Len(updTimes),
                         pending |-> ActiveIds(events),
                         free |-> Cardinality(FreeSlots(events)),
                         sinkLen |-> Len(sink),
                         asked |-> r.asked])
     /\ last' = [op |-> "Sequencer::stop", ret |-> 0]
     /\ UNCHANGED <<now, elapsed, updTimes, cleared, heard,
                    eventBuffer, registry, started>>

\* last records what the call saw: the anchors before it, the intervals it
\* compared against, the steps it processed
Sequencer_update(inputs) ==
  \E q \in {Update(Q, inputs, now, Len(updTimes))} :
     /\ Commit(q)
     /\ updTimes' = Append(updTimes, now)
     /\ last' = [op |-> "Sequencer::update", ret |-> 0, t |-> now,
                 inputs |-> inputs,
                 playing |-> isPlaying, clockOn |-> sendClock,
                 stepAnchor |-> lastStepTime, clockAnchor |-> lastClockTime,
                 step |-> currentStep,
                 steps |-> q.log.steps, pulsed |-> q.log.pulsed,
                 addFailed |-> q.log.addFailed, trace |-> q.log.trace,
                 buffered |-> q.log.buffered,
                 pulses |-> Len(SelectSeq(q.sink, LAMBDA c :
                                 c.call = "sendRealTime" /\ c.a = 248))
                            - Len(SelectSeq(sink, LAMBDA c :
                                 c.call = "sendRealTime" /\ c.a = 248))]
     /\ UNCHANGED <<now, elapsed, cleared, stops, heard,
                    eventBuffer, registry, started>>

(***************************************************************************)
(* The application: setup() then loop(), with a player at the panel        *)
(***************************************************************************)
\* a song from its non-zero cells, given as <<mode, pattern, track, step,
\* data>>
MakeSong(cells) ==
  [c \in {<<x[1], x[2], x[3], x[4]>> : x \in cells} |->
     (CHOOSE x \in cells : <<x[1], x[2], x[3], x[4]>> = c)[5]]

\* the meta-track of the demo song: slot 0 selects pattern 0
MetaLoop == {<<0, 0, 0, 0, NewEvent(TRUE, 0, 0, 0, 0)>>}

\* kick and snare, one bass note
SparseSong ==
  MakeSong(MetaLoop \cup
           {<<1, 0, 0, 0, NewEvent(TRUE, 127, 64, 0, 0)>>,
            <<1, 0, 1, 1, NewEvent(TRUE, 127, 0, 10, 0)>>,
            <<2, 0, 0, 1, NewEvent(TRUE, 64, 127, 20, 0)>>,
            <<2, 0, 0, 2, NewEvent(TRUE, 70, 0, 20, 90)>>})

\* a two-note arpeggio and two sixteen-note arpeggios on step 1, then every
\* drum flammed with a long decay
DenseSong ==
  MakeSong(MetaLoop \cup
           {<<4, 0, 0, 1, NewEvent(TRUE, 64, 0, 127, 0)>>,
            <<4, 0, 1, 1, NewEvent(TRUE, 64, 100, 127, 127)>>,
            <<4, 0, 2, 1, NewEvent(TRUE, 64, 100, 127, 127)>>} \cup
           {<<1, 0, t, s, NewEvent(TRUE, 120, 127, 127, 0)>> :
              t \in Tracks, s \in 2 .. (NUM_EVENTS - 1)})

Songs == {SparseSong, DenseSong}

\* init() as written, and init() extended as its comment invites with the
\* three further interpreters of the repository
ShippedModes ==
  [i \in 0 .. 2 |-> CASE i = 0 -> NewMode("Mode0", 1)
                      [] i = 1 -> NewMode("Mode1", 2)
                      [] i = 2 -> NewMode("Mode2", 3)]

ExtendedModes ==
  [i \in 0 .. 5 |-> CASE i = 0 -> NewMode("Mode0", 1)
                      [] i = 1 -> NewMode("Mode1", 2)
                      [] i = 2 -> NewMode("Mode2", 3)
                      [] i = 3 -> NewMode("Mode3", 4)
                      [] i = 4 -> NewMode("Mode4", 5)
                      [] i = 5 -> NewMode("Mode5", 6)]

Registrations == {ShippedModes, ExtendedModes}

NoInput ==
  [buttons |-> {}, pots |-> <<-1, -1, -1, -1>>, sliders |-> <<0, 0, 0, 0>>]

\* what the player does during one update(): press button 2 with the
\* sliders up, or turn the tempo pot up
Gestures ==
  { [NoInput EXCEPT !.buttons = {1}, !.sliders = <<100, 0, 127, 127>>],
    [NoInput EXCEPT !.pots = <<80, -1, -1, -1>>] }

SeqTicks == {125, 375}

InitApp ==
  /\ now = 0
  /\ InitSched
  /\ \E s \in Songs : Constructed(s)

AppSetup ==
  /\ ~Initialized
  /\ \E r \in Registrations : Sequencer_setup(r)
  /\ UNCHANGED calls

AppStart ==
  /\ Initialized /\ ~isPlaying
  /\ calls < SeqMaxCalls
  /\ Sequencer_start
  /\ calls' = calls + 1

AppStop ==
  /\ Initialized /\ isPlaying
  /\ calls < SeqMaxCalls
  /\ Sequencer_stop
  /\ calls' = calls + 1

\* loop(): update() with nothing touched; once per instant
AppUpdate ==
  /\ Initialized
  /\ last.op # "Sequencer::update"
  /\ Sequencer_update(NoInput)
  /\ UNCHANGED calls

AppGesture ==
  /\ Initialized
  /\ last.op # "Sequencer::update"
  /\ calls < SeqMaxCalls
  /\ \E g \in Gestures : Sequencer_update(g)
  /\ calls' = calls + 1

AppClear ==
  /\ Initialized
  /\ calls < SeqMaxCalls
  /\ Pending # {}
  /\ MIDIScheduler_clear

AppTick ==
  /\ Initialized
  /\ last.op # "tick"
  /\ \E d \in SeqTicks : elapsed + d <= SeqHorizon /\ Millis_advance(d)

Next ==
  \/ AppSetup \/ AppStart \/ AppStop \/ AppUpdate \/ AppGesture \/ AppClear
  \/ AppTick

Spec == InitApp /\ [][Next]_vars

(***************************************************************************)
(* Claims about the sequencer                                              *)
(***************************************************************************)
AfterUpdate == last.op = "Sequencer::update"

\* C3: an update() made while playing, at time t with step anchor a and step
\* interval I, processes exactly (t - a) \div I steps, each one advanced and
\* processed on its own, in order; it moves the anchor to a + n * I and
\* leaves t - anchor < I.
C3_StepsOwedAreProcessed ==
  (AfterUpdate /\ last.playing) =>
    LET n == Since(last.t, last.stepAnchor) \div stepInterval
    IN /\ Len(last.steps) = n
       /\ \A k \in 1 .. n : last.steps[k] = (last.step + k) % NUM_EVENTS
       /\ currentStep = (last.step + n) % NUM_EVENTS
       /\ lastStepTime = Wrap(last.stepAnchor + n * stepInterval)
       /\ Since(last.t, lastStepTime) < stepInterval

\* C3 witness: an update() exactly three intervals after the anchor has
\* processed three steps and moved the anchor by three intervals.
C3_Witness ==
  /\ AfterUpdate /\ last.playing
  /\ Since(last.t, last.stepAnchor) = 3 * stepInterval
  /\ Len(last.steps) = 3
  /\ lastStepTime = last.stepAnchor + 3 * stepInterval

\* C4: no add() on the buffer shared by the interpreters returns false
\* during the step processing of an update().
C4_BufferNeverOverflows == AfterUpdate => last.addFailed = 0

\* C6: an update() that sends a clock pulse moves the pulse anchor forward by
\* exactly one clock interval.
C6_PulseAnchorAdvancesByInterval ==
  (AfterUpdate /\ last.pulsed) =>
    lastClockTime = Wrap(last.clockAnchor + clockInterval)

\* the registered mode slots, in the order stop() visits them
Registered == SelectSeq([k \in 1 .. NUM_MODES |-> k - 1],
                        LAMBDA m : modes[m].kind # "nullptr")

\* the sink call a stop-all with identity id makes in update number upd
StopAllCall(channel, id, upd) ==
  [call |-> "sendControlChange", a |-> 123, b |-> 0, channel |-> channel,
   id |-> id, upd |-> upd]

UpdatesDue(epoch, exec) ==
  {u \in (epoch + 1) .. Len(updTimes) : updTimes[u] >= exec}

\* C8: stop() frees no pending slot: a message pending when stop() was
\* called, and not discarded by clear(), is still pending as long as no later
\* update() has reached its fire time, and is delivered exactly once, by the
\* first later update() that reaches it.
C8_StopKeepsPending ==
  \A i \in 1 .. Len(stops) :
    \A id \in stops[i].pending \ cleared :
      LET m == admitted[id]
          due == UpdatesDue(stops[i].epoch, m.exec)
      IN IF due = {}
         THEN /\ events[m.slot].active
              /\ events[m.slot].id = id
              /\ ~Delivered(id)
         ELSE /\ \E k \in 1 .. Len(sink) :
                   /\ sink[k].id = id
                   /\ sink[k].upd = CHOOSE u \in due : \A v \in due : u <= v
                   /\ sink[k] = SinkCall([type |-> m.type,
                                          channel |-> m.channel,
                                          data1 |-> m.data1,
                                          data2 |-> m.data2, id |-> id],
                                         sink[k].upd)
              /\ \A k, l \in 1 .. Len(sink) :
                   (sink[k].id = id /\ sink[l].id = id) => k = l

\* C8 witness: while stopped, a message that was pending at stop() has been
\* delivered by an update() made at a later time, and another one is still
\* pending.
C8_Witness ==
  /\ ~isPlaying
  /\ \E i \in 1 .. Len(stops) :
       /\ \E id \in stops[i].pending, k \in 1 .. Len(sink) :
            /\ sink[k].id = id
            /\ sink[k].upd > stops[i].epoch
            /\ updTimes[sink[k].upd] > stops[i].at
       /\ \E id \in stops[i].pending :
            events[admitted[id].slot].active
              /\ events[admitted[id].slot].id = id

(***************************************************************************)
(* The index accessors applied to every 8-bit index                        *)
(***************************************************************************)
InitIndex ==
  /\ now = 0
  /\ InitSched
  /\ Constructed(EmptySong)

\* one accessor call on the constructed song
Accessed(op, arg, ret) ==
  /\ last.op = "construct"
  /\ last' = [op |-> op, ret |-> ret, arg |-> arg]
  /\ UNCHANGED <<now, elapsed, events, admitted, updTimes, cleared, sink,
                 calls, requests>>
  /\ UNCHANGED seqVars

GetEvent == \E k \in 0 .. IndexTop :
  Accessed("Track::getEvent", <<k>>, <<Track_getEvent(k)>>)

GetTrack == \E k \in 0 .. IndexTop :
  Accessed("Pattern::getTrack", <<k>>, <<Pattern_getTrack(k)>>)

GetPattern == \E m \in 0 .. IndexTop, p \in 0 .. PatternTop :
  Accessed("Song::getPattern", <<m, p>>, Song_getPattern(m, p))

NextIndex == GetEvent \/ GetTrack \/ GetPattern

SpecIndex == InitIndex /\ [][NextIndex]_vars

\* C5: getEvent(k) reaches element k mod 16, getTrack(k) element k mod 8 and
\* getPattern(m, p) the element at row m mod 15, column p mod 32; every
\* element reached lies inside its array.
C5_IndicesWrapIntoRange ==
  /\ last.op = "Track::getEvent" =>
       /\ last.ret[1] = last.arg[1] % NUM_EVENTS
       /\ last.ret[1] \in 0 .. (NUM_EVENTS - 1)
  /\ last.op = "Pattern::getTrack" =>
       /\ last.ret[1] = last.arg[1] % NUM_TRACKS
       /\ last.ret[1] \in 0 .. (NUM_TRACKS - 1)
  /\ last.op = "Song::getPattern" =>
       /\ last.ret = <<last.arg[1] % NUM_MODES, last.arg[2] % NUM_PATTERNS>>
       /\ last.ret[1] \in 0 .. (NUM_MODES - 1)
       /\ last.ret[2] \in 0 .. (NUM_PATTERNS - 1)

(***************************************************************************)
(* The pattern-sequencing protocol applied to every cursor                 *)
(***************************************************************************)
\* meta-track Events: empty, a parameter without the switch, and switches
\* with targets 0, 1, 5 and 31
MetaEvents ==
  {0, NewEvent(FALSE, 127, 0, 0, 0), NewEvent(TRUE, 0, 0, 0, 0),
   NewEvent(TRUE, 4, 9, 0, 0), NewEvent(TRUE, 20, 0, 0, 0),
   NewEvent(TRUE, 127, 0, 0, 0)}

\* a meta-track with a in slot 0 and b in slots 1 .. k
MetaTrack(a, b, k) ==
  MakeSong({<<0, 0, 0, 0, a>>} \cup {<<0, 0, 0, e, b>> : e \in 1 .. k})

\* selected patterns as the pattern pot can leave them
Selections ==
  {[i \in Modes |-> 0], [i \in Modes |-> i], [i \in Modes |-> 31 - i]}

\* a sequencer that has been set up and has run for a while
InitProto ==
  /\ now = 0
  /\ InitSched
  /\ \E a \in MetaEvents, b \in MetaEvents, k \in {MetaRun, NUM_EVENTS - 1},
        p \in 0 .. (NUM_EVENTS - 1), sel \in Selections :
       /\ song = MetaTrack(a, b, k)
       /\ sequencePosition = p
       /\ currentPatterns = sel
  /\ modes = [i \in Modes |-> IF i \in DOMAIN ShippedModes
                              THEN ShippedModes[i] ELSE NullMode]
  /\ currentStep = 0
  /\ currentTrack = 0
  /\ currentMode = 1
  /\ bpm = [num |-> 120, den |-> 1]
  /\ stepInterval = 125
  /\ clockInterval = 20
  /\ lastStepTime = 0
  /\ lastClockTime = 0
  /\ sendClock = TRUE
  /\ isPlaying = TRUE
  /\ led = 0
  /\ lastSliderDebug = 0
  /\ stops = <<>>
  /\ heard = <<>>
  /\ eventBuffer = EmptyBuffer
  /\ registry = EmptyRegistry
  /\ started = <<>>

Sequencer_updatePatternFromSequence ==
  /\ calls < ProtoMaxRuns
  /\ \E q \in {UpdatePatternFromSequence(Q)} : Commit(q)
  /\ calls' = calls + 1
  /\ last' = [op |-> "Sequencer::updatePatternFromSequence", ret |-> 0,
              position |-> sequencePosition, patterns |-> currentPatterns,
              event |-> ReadEvent(song, 0, 0, 0, sequencePosition),
              first |-> ReadEvent(song, 0, 0, 0, 0)]
  /\ UNCHANGED <<now, elapsed, updTimes, cleared, stops, heard,
                 eventBuffer, registry, started>>

\* the player turns the pattern pot between two runs: pattern 10 for the
\* mode being edited
PatternGestures == {[NoInput EXCEPT !.pots = <<-1, -1, 40, -1>>]}

ProtoPanel ==
  /\ last.op # "Sequencer::update"
  /\ \E g \in PatternGestures : Sequencer_update(g)
  /\ UNCHANGED calls

NextProto == Sequencer_updatePatternFromSequence \/ ProtoPanel

SpecProto == InitProto /\ [][NextProto]_vars

AfterProtocol == last.op = "Sequencer::updatePatternFromSequence"

\* floor(pot0 * 32 / 128) of a meta-track Event
Target(data) == (GetPot(data, 0) * 32) \div 128

MetaSlot(e) == ReadEvent(song, 0, 0, 0, e)

OnlySlot0Active ==
  /\ GetSwitch(MetaSlot(0))
  /\ \A e \in 1 .. (NUM_EVENTS - 1) : ~GetSwitch(MetaSlot(e))

EmptyMetaTrack == \A e \in 0 .. (NUM_EVENTS - 1) : ~GetSwitch(MetaSlot(e))

C12_EmptyMetaTrackPinsZero ==
  (AfterProtocol /\ EmptyMetaTrack) =>
    \A i \in 1 .. (NUM_MODES - 1) : currentPatterns[i] = 0

\* C12: with every Event of the meta-track inactive, a run of the protocol
\* changes no selected pattern and leaves the cursor at 0: a mode is on
\* pattern 0 after it exactly if it was before it.
C12_EmptyMetaTrackChangesNothing ==
  (AfterProtocol /\ EmptyMetaTrack) =>
    /\ currentPatterns = last.patterns
    /\ sequencePosition = 0

\* C12 witness: on an empty meta-track a second run left mode 1 on the
\* pattern the pattern pot had selected and mode 2 on pattern 0.
C12_Witness ==
  /\ AfterProtocol /\ EmptyMetaTrack
  /\ calls >= 2
  /\ last.patterns[1] = 10
  /\ currentPatterns[1] = 10
  /\ currentPatterns[2] = 0

(***************************************************************************)
(* An interpreter called directly, as the unit tests call it               *)
(***************************************************************************)
ModeMaxCalls == 3

\* the Events the calls are made with: two with the switch clear, two with
\* it set (the first of these asks Mode2 for a slide and Mode1 for a flam)
ModeEvents ==
  <<NewEvent(FALSE, 127, 127, 127, 127), NewEvent(FALSE, 64, 0, 100, 5),
    NewEvent(TRUE, 64, 100, 127, 20), NewEvent(TRUE, 100, 0, 0, 0)>>

\* pattern 0 of every mode holds them on steps 0 .. 3 of every track
ModeSong ==
  MakeSong({<<m, 0, t, e - 1, ModeEvents[e]>> :
              m \in DOMAIN ExtendedModes, t \in Tracks,
              e \in DOMAIN ModeEvents})

StepTimes == {0, 125}

\* the instance under test is modes[currentMode], the voice under test
\* currentTrack
InitModes ==
  /\ now = 0
  /\ InitSched
  /\ song = ModeSong
  /\ modes = [i \in Modes |-> IF i \in DOMAIN ExtendedModes
                              THEN ExtendedModes[i] ELSE NullMode]
  /\ currentPatterns = [i \in Modes |-> 0]
  /\ currentStep = 0
  /\ currentTrack \in Tracks
  /\ currentMode \in DOMAIN ExtendedModes
  /\ sequencePosition = 0
  /\ bpm = [num |-> 120, den |-> 1]
  /\ stepInterval = 125
  /\ clockInterval = 20
  /\ lastStepTime = 0
  /\ lastClockTime = 0
  /\ sendClock = TRUE
  /\ isPlaying = FALSE
  /\ led = 0
  /\ lastSliderDebug = 0
  /\ stops = <<>>
  /\ heard = <<>>
  /\ eventBuffer = EmptyBuffer
  /\ registry = EmptyRegistry
  /\ started = <<>>

\* MIDIEventBuffer output; mode->processEvent(trackIndex, event, stepTime,
\* output) with event the Event of step index; output.events afterwards.
\* No interpreter reads stepTime.
Mode_processEvent(trackIndex, index, stepTime) ==
  /\ calls < ModeMaxCalls
  /\ LET data == ReadEvent(song, currentMode, 0, trackIndex, index)
         r == ProcessEvent(modes[currentMode], trackIndex, data)
         output == BufferAddAll(EmptyBuffer, r.out)
     IN /\ modes' = [modes EXCEPT ![currentMode] = r.mode]
        /\ last' = [op |-> "Mode::processEvent", ret |-> 0,
                    mode |-> currentMode, track |-> trackIndex,
                    index |-> index, event |-> data, before |-> modes,
                    out |-> output.events]
        /\ heard' = Append(heard, [track |-> trackIndex, event |-> data,
                                   stepTime |-> stepTime,
                                   out |-> output.events])
  /\ calls' = calls + 1
  /\ UNCHANGED <<now, elapsed, events, admitted, updTimes, cleared, sink,
                 requests>>
  /\ UNCHANGED <<song, currentPatterns, currentStep, currentTrack,
                 currentMode, sequencePosition, bpm, stepInterval,
                 clockInterval, lastStepTime, lastClockTime, sendClock,
                 isPlaying, led, lastSliderDebug, stops,
                 eventBuffer, registry, started>>

\* calls for the voice under test and for its neighbour
NextModes ==
  \E trackIndex \in {currentTrack, (currentTrack + 1) % NUM_TRACKS},
     index \in 0 .. (Len(ModeEvents) - 1), stepTime \in StepTimes :
    Mode_processEvent(trackIndex, index, stepTime)

SpecModes == InitModes /\ [][NextModes]_vars

AfterProcess == last.op = "Mode::processEvent"

\* the note Mode2 computes from pot 0
Mode2_Note(data) ==
  LET raw == 36 + (GetPot(data, 0) * 36) \div 127
  IN IF raw > 72 THEN 72 ELSE raw

C14_InactiveEventAppendsNothing ==
  (AfterProcess /\ ~GetSwitch(last.event)) =>
    /\ last.track \in Tracks
    /\ modes[last.mode].kind \in
         {"Mode0", "Mode1", "Mode2", "Mode3", "Mode4", "Mode5"}
    /\ Len(last.out) = 0

\* C14 witness: Mode4 on voice 7, given an Event with the switch clear and
\* all four pots at 127 right after an arpeggio on that voice, appended
\* nothing.
C14_Witness ==
  /\ AfterProcess /\ ~GetSwitch(last.event)
  /\ modes[last.mode].kind = "Mode4"
  /\ last.track = 7
  /\ \A pot \in 0 .. 3 : GetPot(last.event, pot) = 127
  /\ Len(heard) = 2
  /\ heard[1].track = 7 /\ Len(heard[1].out) > 0
  /\ last.out = <<>>

\* output.events after one processEvent call on an empty buffer
Appended(mode, trackIndex, data) ==
  BufferAddAll(EmptyBuffer, ProcessEvent(mode, trackIndex, data).out).events

\* the messages of the last call of log, when the calls of log are made in
\* order on the instance mode
RECURSIVE ReplayOut(_, _)
ReplayOut(mode, log) ==
  IF Len(log) = 1 THEN Appended(mode, log[1].track, log[1].event)
  ELSE ReplayOut(ProcessEvent(mode, log[1].track, log[1].event).mode,
                 Tail(log))

\* the calls made so far for voice v
VoiceLog(v) == SelectSeq(heard, LAMBDA c : c.track = v)

\* the calls for voice v since the most recent one with an inactive Event,
\* that one included; <<>> if there was none
SinceDeactivation(v) ==
  LET log == VoiceLog(v)
      off == {k \in 1 .. Len(log) : ~GetSwitch(log[k].event)}
  IN IF off = {} THEN <<>>
     ELSE SubSeq(log, CHOOSE k \in off : \A j \in off : j <= k, Len(log))

\* what earlier histories can have left in the fields of voice v of an
\* instance of the kind of mode
PriorStates(mode, v) ==
  CASE mode.kind = "Mode2" ->
         {[mode EXCEPT !.lastNote[v] = n] :
            n \in {0} \cup {Mode2_Note(ModeEvents[e]) :
                              e \in DOMAIN ModeEvents}}
    [] mode.kind = "Mode4" ->
         {[mode EXCEPT !.direction[v] = d] : d \in BOOLEAN}
    [] OTHER -> {mode}

\* the last call, for voice v of an instance of one of kinds, appended what
\* the calls for v since the last deactivating call append whatever the
\* history before them
ScopedDeterminism(kinds) ==
  (/\ AfterProcess
   /\ modes[last.mode].kind \in kinds
   /\ SinceDeactivation(last.track) # <<>>) =>
    \A m0 \in PriorStates(ExtendedModes[last.mode], last.track) :
      ReplayOut(m0, SinceDeactivation(last.track)) = last.out

\* C15: for Mode2_AcidBass and Mode4_MetaArp, the messages a processEvent
\* call for voice v appends depend only on the calls made for v since the
\* most recent call for v with an inactive Event: the same calls since
\* then, after any other history, append the same messages in order.
C15_DeterministicSinceDeactivation == ScopedDeterminism({"Mode2", "Mode4"})

\* C16: for Mode1_DrumMachine, Mode3_EuclideanFade and
\* Mode5_BasslineProgression, two processEvent calls on the same instance
\* with the same voice, Event and stepTime append the same messages in the
\* same order (type, channel, data1, data2 and delta alike), whatever calls
\* were made in between.
C16_StatelessCallsRepeat ==
  modes[currentMode].kind \in {"Mode1", "Mode3", "Mode5"} =>
    \A j \in 1 .. Len(heard), k \in 1 .. Len(heard) :
      (/\ heard[j].track = heard[k].track
       /\ heard[j].event = heard[k].event
       /\ heard[j].stepTime = heard[k].stepTime) =>
        /\ Len(heard[j].out) = Len(heard[k].out)
        /\ \A n \in 1 .. Len(heard[j].out) :
             /\ heard[j].out[n].type = heard[k].out[n].type
             /\ heard[j].out[n].channel = heard[k].out[n].channel
             /\ heard[j].out[n].data1 = heard[k].out[n].data1
             /\ heard[j].out[n].data2 = heard[k].out[n].data2
             /\ heard[j].out[n].delta = heard[k].out[n].delta

\* C16 witness: Mode3 given the same active Event for the same voice at
\* the same stepTime twice, with another active Event for that voice in
\* between, appended the same sixteen messages both times.
C16_Witness ==
  /\ modes[currentMode].kind = "Mode3"
  /\ Len(heard) = 3
  /\ heard[1].track = heard[3].track /\ heard[2].track = heard[1].track
  /\ heard[1].event = heard[3].event /\ GetSwitch(heard[1].event)
  /\ heard[1].stepTime = heard[3].stepTime
  /\ GetSwitch(heard[2].event) /\ heard[2].event # heard[1].event
  /\ Len(heard[1].out) = 16
  /\ heard[3].out = heard[1].out

(***************************************************************************)
(* The scheduler given batches and invalid channels, on an empty pool and  *)
(* on one with a single slot left                                          *)
(***************************************************************************)
BatchMaxCalls == 3
BatchFill == 63
BatchDelta == 2

\* the pool after n note() calls at time 0, each with delay BatchDelta
PoolAfter(n) ==
  For(1, n, [events |-> [i \in Slots |-> EmptySlot], admitted |-> <<>>],
      LAMBDA sch, i : Note(sch, 1, 36 + i, 100, BatchDelta, 0, 0))

InitBatch ==
  /\ now = 0
  /\ elapsed = 0
  /\ \E n \in {0, BatchFill} :
       /\ events = PoolAfter(n).events
       /\ admitted = PoolAfter(n).admitted
       /\ requests = [i \in 1 .. n |->
                        RequestAt("note", "NOTE_ON", 1, 36 + i, 100,
                                  BatchDelta, 0)]
  /\ updTimes = <<>>
  /\ cleared = {}
  /\ sink = <<>>
  /\ calls = 0
  /\ last = [op |-> "construct", ret |-> 0]
  /\ Constructed(EmptySong)

\* buffers handed to scheduleAll: invalid channels first, in the middle
\* and last
BatchBuffers ==
  { <<MIDIEvent("NOTE_ON", 0, 60, 100, 0), MIDIEvent("NOTE_ON", 3, 62, 90, 0),
      MIDIEvent("NOTE_OFF", 3, 62, 0, BatchDelta)>>,
    <<MIDIEvent("CC", 16, 7, 64, BatchDelta),
      MIDIEvent("STOP_ALL", 17, 0, 0, 0),
      MIDIEvent("STOP_ALL", 1, 0, 0, 0)>>,
    <<MIDIEvent("NOTE_OFF", 200, 1, 0, 0)>> }

BatchChannels == {0, 1, 16, 17}

BatchNote == \E channel \in BatchChannels :
  calls < BatchMaxCalls /\ MIDIScheduler_note(channel, 60, 100, BatchDelta)
BatchOff == \E channel \in {0, 16} :
  calls < BatchMaxCalls /\ MIDIScheduler_off(channel, 60, 0)
BatchCc == \E channel \in {1, 255} :
  calls < BatchMaxCalls /\ MIDIScheduler_cc(channel, 10, 64, 0)
BatchStopall == \E channel \in {2, 17} :
  calls < BatchMaxCalls /\ MIDIScheduler_stopall(channel, BatchDelta)
BatchScheduleAll == \E b \in BatchBuffers :
  calls < BatchMaxCalls /\ MIDIScheduler_scheduleAll(b)
BatchUpdate == calls < BatchMaxCalls /\ MIDIScheduler_update
BatchClear == calls < BatchMaxCalls /\ MIDIScheduler_clear
BatchTick == elapsed < BatchDelta /\ Millis_advance(BatchDelta)

NextBatch ==
  \/ BatchNote \/ BatchOff \/ BatchCc \/ BatchStopall \/ BatchScheduleAll
  \/ BatchUpdate \/ BatchClear \/ BatchTick

SpecBatch == InitBatch /\ [][NextBatch]_vars

\* the messages of a buffer that scheduleAll does not skip
ValidOnes(buffer) == SelectSeq(buffer, LAMBDA e : e.channel \in 1 .. 16)

\* the slot contents a message e admitted at time t as number id must have
SlotFor(e, t, id) ==
  [type |-> e.type, channel |-> e.channel, data1 |-> e.data1,
   data2 |-> e.data2, executeTime |-> Wrap(t + e.delta), active |-> TRUE,
   id |-> id]

ScheduleAllStepsRight ==
  (last'.op = "scheduleAll" /\ calls' = calls + 1) =>
    LET buffer == SubSeq(requests', Len(requests) + 1, Len(requests'))
        valid == ValidOnes(buffer)
        free == Cardinality(FreeSlots(events))
        count == last'.ret
    IN /\ count = Min(Len(valid), free)
       /\ Cardinality(FreeSlots(events')) = free - count
       /\ Len(admitted') = Len(admitted) + count
       /\ \A id \in 1 .. Len(admitted) : admitted'[id] = admitted[id]
       /\ \A i \in Slots : events[i].active => events'[i] = events[i]
       /\ \A j \in 1 .. count :
            LET m == admitted'[Len(admitted) + j]
                e == valid[j]
            IN /\ <<m.type, m.channel, m.data1, m.data2, m.exec>> =
                    <<e.type, e.channel, e.data1, e.data2,
                      Wrap(now + e.delta)>>
               /\ ~events[m.slot].active
               /\ events'[m.slot] = SlotFor(e, now, Len(admitted) + j)
       /\ \A i \in Slots :
            events'[i] # events[i] =>
              \E j \in 1 .. count : admitted'[Len(admitted) + j].slot = i
       /\ sink' = sink

\* C17: scheduleAll(buffer) takes the messages in order, skips those whose
\* channel is outside 1 .. 16 without taking a slot, stops at the first
\* valid one that finds no free slot, and returns the number of slots it
\* activated: the admitted messages are the first count valid ones, each
\* with fire time = current time + delta and type, channel, data1, data2
\* copied; no other slot changes and no sink call is made.
C17_ScheduleAllAdmitsFirstValid == [][ScheduleAllStepsRight]_vars

\* C17 witness: a buffer of an invalid-channel message, a note-on and its
\* note-off met a pool with one slot free: the call returned 1, the note-on
\* holds the last slot, the note-off was dropped.
C17_Witness ==
  /\ last.op = "scheduleAll" /\ last.ret = 1
  /\ Len(requests) = BatchFill + 3
  /\ requests[BatchFill + 1].channel = 0
  /\ Len(admitted) = BatchFill + 1
  /\ admitted[BatchFill + 1].type = "NOTE_ON"
  /\ admitted[BatchFill + 1].data1 = 62
  /\ admitted[BatchFill + 1].slot = MAX_SCHEDULED_EVENTS - 1
  /\ FreeSlots(events) = {}

DirectOps == {"note", "off", "cc", "stopall"}

\* what one note / off / cc / stopall call did, by its channel
DirectCallValidates ==
  (last'.op \in DirectOps /\ calls' = calls + 1) =>
    LET r == requests'[Len(requests')]
    IN /\ Len(requests') = Len(requests) + 1
       /\ last'.ret = 0
       /\ sink' = sink
       /\ (r.channel = 0 \/ r.channel > 16) =>
            /\ events' = events
            /\ admitted' = admitted
       /\ (r.channel \in {1, 16} /\ FreeSlots(events) # {}) =>
            /\ admitted' = Append(admitted, admitted'[Len(admitted')])
            /\ ~events[admitted'[Len(admitted')].slot].active
            /\ events' = [events EXCEPT ![admitted'[Len(admitted')].slot] =
                            SlotFor(r, now, Len(admitted'))]

\* every sink call is that of an admitted message on a channel 1 .. 16
SinkChannelsValid ==
  \A k \in 1 .. Len(sink) :
    /\ sink[k].id \in 1 .. Len(admitted)
    /\ sink[k].channel = admitted[sink[k].id].channel
    /\ sink[k].channel \in 1 .. 16

\* C18: a note / off / cc / stopall call with channel 0 or above 16
\* returns without error, leaves every slot of the pool as it was and makes
\* no sink call, nor does any later update() make one for it; with channel
\* 1 or 16 and a slot free the message takes the slot.
C18_InvalidChannelDropped ==
  [][DirectCallValidates]_vars /\ []SinkChannelsValid

\* C18 witness: a note on channel 0 and then one on channel 16 were asked
\* for; after the delay an update() made one sink call, on channel 16, and
\* the pool is empty.
C18_Witness ==
  /\ Len(requests) = 2
  /\ requests[1].op = "note" /\ requests[1].channel = 0
  /\ requests[2].op = "note" /\ requests[2].channel = 16
  /\ last.op = "update"
  /\ Len(sink) = 1 /\ sink[1].channel = 16 /\ sink[1].call = "sendNoteOn"
  /\ FreeSlots(events) = Slots

\* what clear() did, and what the first schedule call after it found
ClearDiscards ==
  /\ (last'.op = "clear" /\ calls' = calls + 1) =>
       /\ \A i \in Slots : ~events'[i].active
       /\ sink' = sink
       /\ admitted' = admitted
  /\ (/\ last.op = "clear" /\ calls' = calls + 1
      /\ last'.op \in DirectOps \cup {"scheduleAll"}
      /\ ValidOnes(SubSeq(requests', Len(requests) + 1, Len(requests')))
           # <<>>) =>
       /\ Len(admitted') > Len(admitted)
       /\ admitted'[Len(admitted) + 1].slot = 0
       /\ events'[0].active /\ events'[0].id = Len(admitted) + 1

\* no sink call is for a message clear() discarded; every other admitted
\* message is delivered by the first update() at or after its fire time
\* and holds its slot until then
ClearedStaySilent ==
  /\ \A k \in 1 .. Len(sink) : sink[k].id \notin cleared
  /\ \A id \in (1 .. Len(admitted)) \ cleared :
       LET m == admitted[id]
           due == {u \in (m.epoch + 1) .. Len(updTimes) :
                     updTimes[u] >= m.exec}
       IN /\ due # {} =>
               \E k \in 1 .. Len(sink) :
                 /\ sink[k].id = id
                 /\ \A u \in due : sink[k].upd <= u
          /\ due = {} => (events[m.slot].active /\ events[m.slot].id = id)

\* C19: clear() marks all 64 slots inactive and makes no sink call itself;
\* no message pending at the time of clear() is delivered afterwards, and a
\* message scheduled after clear() takes a slot and is delivered by the
\* first update() at or after its fire time.
C19_ClearDiscardsSilently == [][ClearDiscards]_vars /\ []ClearedStaySilent

\* C19 witness: clear() discarded 63 pending notes, a note asked for after
\* it took slot 0, and the update() after their common fire time made one
\* sink call, for that note.
C19_Witness ==
  /\ Cardinality(cleared) = BatchFill
  /\ Len(admitted) = BatchFill + 1
  /\ admitted[BatchFill + 1].slot = 0
  /\ last.op = "update"
  /\ \A id \in cleared : updTimes[Len(updTimes)] >= admitted[id].exec
  /\ Len(sink) = 1
  /\ sink[1].id = BatchFill + 1

(***************************************************************************)
(* The application played for a while and then stopped, loop() going on    *)
(* until the pool is empty                                                 *)
(***************************************************************************)
LiveHorizon == 375
DrainStep == 2500
DrainHorizon == 10000

\* steps 1 and 2: all eight drums flammed with a long decay; step 3: five
\* flammed drums, one plain drum and one long bass note
TightSong ==
  MakeSong(MetaLoop \cup
           {<<1, 0, t, e, NewEvent(TRUE, 120, 127, 127, 0)>> :
              t \in Tracks, e \in {1, 2}} \cup
           {<<1, 0, t, 3, NewEvent(TRUE, 120, 127, 127, 0)>> : t \in 0 .. 4}
           \cup {<<1, 0, 5, 3, NewEvent(TRUE, 120, 0, 127, 0)>>,
                 <<2, 0, 0, 3, NewEvent(TRUE, 64, 0, 127, 0)>>})

LiveSongs == {SparseSong, TightSong}

InitLive ==
  /\ now = 0
  /\ InitSched
  /\ \E s \in LiveSongs : Constructed(s)

\* millis() advances between two loop() passes: while playing up to
\* LiveHorizon, after stop() for as long as the pool holds a message
LiveTick ==
  /\ Initialized
  /\ last.op # "tick"
  /\ \/ /\ isPlaying
        /\ \E d \in SeqTicks : elapsed + d <= LiveHorizon /\ Millis_advance(d)
     \/ /\ ~isPlaying
        /\ Pending # {}
        /\ elapsed < DrainHorizon
        /\ Millis_advance(DrainStep)

\* loop(): sequencer.update(), once per instant
LiveUpdate ==
  /\ Initialized
  /\ last.op \in {"tick", "Sequencer::stop"}
  /\ Sequencer_update(NoInput)
  /\ UNCHANGED calls

\* the player stops the sequencer
LiveStop ==
  /\ Initialized /\ isPlaying
  /\ last.op = "Sequencer::update"
  /\ Sequencer_stop
  /\ UNCHANGED calls

NextLive == AppSetup \/ LiveTick \/ LiveUpdate \/ LiveStop

\* loop() runs forever and time passes; the player stops at some time
SpecLive ==
  /\ InitLive
  /\ [][NextLive]_vars
  /\ WF_vars(AppSetup) /\ WF_vars(LiveTick) /\ WF_vars(LiveUpdate)
  /\ WF_vars(LiveStop)

\* the k-th sink call is a note-on
NoteOnAt(k) == k <= Len(sink) /\ sink[k].call = "sendNoteOn"

\* a note-off for the channel and note of the k-th sink call came after it
AnsweredAt(k) ==
  \E j \in (k + 1) .. Len(sink) :
    /\ sink[j].call = "sendNoteOff"
    /\ sink[j].channel = sink[k].channel
    /\ sink[j].a = sink[k].a

\* the note-ons delivered so far that no note-off has followed yet
Hanging == {k \in 1 .. Len(sink) : NoteOnAt(k) /\ ~AnsweredAt(k)}

\* C20: no hanging notes: with update() called again and again and clear()
\* never called, every note-on delivered to the sink is eventually followed
\* by a delivered note-off for the same channel and note, also when the
\* pool or the step buffer ran out of room while the step was collected.
\* Sink calls are never taken back and a run of SpecLive makes finitely
\* many, so this is: from some time on no delivered note-on is unanswered.
C20_NoHangingNotes == <>[](Hanging = {})

(***************************************************************************)
(* Claims about the transport and the panel                                *)
(***************************************************************************)
StartResetsTransportOnly ==
  (last'.op = "Sequencer::start" /\ calls' = calls + 1) =>
    /\ currentStep' = 0
    /\ lastStepTime' = now /\ lastClockTime' = now
    /\ sink' = Append(sink, RealTime(250))
    /\ isPlaying'
    /\ UNCHANGED <<song, currentPatterns, sequencePosition, currentMode,
                   currentTrack, bpm, stepInterval, clockInterval, events,
                   admitted, modes, sendClock, now>>

\* C21: start() sets the step cursor to 0 and both timing anchors to the
\* current time, emits the transport-start message and enters Playing; the
\* Song, the selected patterns, the meta-sequence cursor, the edit mode and
\* track, the tempo and the scheduler pool are as they were.
C21_StartResetsTransportOnly == [][StartResetsTransportOnly]_vars

\* C21 witness: start() after a stop() that came after steps had been
\* played: the pool still holds messages, the anchors are at the current
\* time, the step cursor is back at 0.
C21_Witness ==
  /\ last.op = "Sequencer::start"
  /\ Len(stops) = 1 /\ stops[1].at > 0 /\ updTimes # <<>>
  /\ now > stops[1].at
  /\ Pending # {}
  /\ currentStep = 0 /\ lastStepTime = now /\ lastClockTime = now
  /\ isPlaying
  /\ sink[Len(sink)] = RealTime(250)

(***************************************************************************)
(* Claims about an interpreter's channel                                   *)
(***************************************************************************)
\* Mode::getChannel()
GetChannel(mode) == mode.channel

\* C22: an interpreter's channel is the one it was constructed with in
\* every later state, whatever calls were made, and every message a
\* processEvent call appends carries that channel.
C22_ChannelFixedAtConstruction ==
  /\ \A i \in DOMAIN ExtendedModes :
       GetChannel(modes[i]) = GetChannel(ExtendedModes[i])
  /\ \A k \in 1 .. Len(heard) :
       \A n \in 1 .. Len(heard[k].out) :
         heard[k].out[n].channel = GetChannel(ExtendedModes[currentMode])

\* C22 witness: Mode2, constructed on channel 3, was called three times
\* with active Events; the last call appended portamento control changes,
\* a note-on and a note-off, all on channel 3.
C22_Witness ==
  /\ modes[currentMode].kind = "Mode2"
  /\ GetChannel(modes[currentMode]) = 3
  /\ Len(heard) = 3
  /\ \A k \in 1 .. 3 : GetSwitch(heard[k].event) /\ heard[k].track = currentTrack
  /\ Len(heard[3].out) = 4
  /\ {heard[3].out[n].type : n \in 1 .. 4} = {"CC", "NOTE_ON", "NOTE_OFF"}
  /\ \A n \in 1 .. 4 : heard[3].out[n].channel = 3

(***************************************************************************)
(* The panel: every public call of the Sequencer, in any order             *)
(***************************************************************************)
PanelMaxCalls == 2
PanelHorizon == 500

\* at 800 BPM a step is 18 ms: 375 ms are twenty steps, and the step cursor
\* wraps
PanelTicks == {125, 375}

\* what the player does during one update(): buttons with the sliders set,
\* each selection pot at its top, a button together with the mode pot
PanelGestures ==
  { [NoInput EXCEPT !.buttons = {1}, !.sliders = <<100, 0, 127, 127>>],
    [NoInput EXCEPT !.buttons = {0, 15}, !.sliders = <<1, 2, 3, 4>>],
    [NoInput EXCEPT !.buttons = {1}, !.sliders = <<5, 6, 7, 8>>,
                    !.pots = <<-1, 127, -1, -1>>],
    [NoInput EXCEPT !.pots = <<127, -1, -1, -1>>],
    [NoInput EXCEPT !.pots = <<-1, 30, 127, -1>>],
    [NoInput EXCEPT !.pots = <<-1, -1, 127, 127>>] }

\* arguments of setBPM, setCurrentMode and setCurrentTrack
PanelTempos == {[num |-> 10, den |-> 1], [num |-> 1000, den |-> 1]}
PanelModes == {2, 14, 15, 255}
PanelTracks == {5, 8, 255}

Sequencer_setBPM(newBPM) ==
  /\ \E q \in {SetBPM(Q, newBPM)} : Commit(q)
  /\ last' = [op |-> "Sequencer::setBPM", ret |-> 0]
  /\ UNCHANGED <<now, elapsed, updTimes, cleared, stops, heard,
                 eventBuffer, registry, started>>

\* currentMode = mode & 0x0F
Sequencer_setCurrentMode(mode) ==
  /\ \E q \in {[Q EXCEPT !.currentMode = BitAnd(mode, 15)]} : Commit(q)
  /\ last' = [op |-> "Sequencer::setCurrentMode", ret |-> 0]
  /\ UNCHANGED <<now, elapsed, updTimes, cleared, stops, heard,
                 eventBuffer, registry, started>>

\* currentTrack = track & 0x07
Sequencer_setCurrentTrack(track) ==
  /\ \E q \in {[Q EXCEPT !.currentTrack = BitAnd(track, 7)]} : Commit(q)
  /\ last' = [op |-> "Sequencer::setCurrentTrack", ret |-> 0]
  /\ UNCHANGED <<now, elapsed, updTimes, cleared, stops, heard,
                 eventBuffer, registry, started>>

InitPanel ==
  /\ now = 0
  /\ InitSched
  /\ Constructed(SparseSong)

\* setup() with init() as written
PanelSetup ==
  /\ ~Initialized
  /\ Sequencer_setup(ShippedModes)
  /\ UNCHANGED calls

PanelStart ==
  /\ Initialized
  /\ calls < PanelMaxCalls
  /\ Sequencer_start
  /\ calls' = calls + 1

PanelStop ==
  /\ Initialized
  /\ calls < PanelMaxCalls
  /\ Sequencer_stop
  /\ calls' = calls + 1

PanelSetBPM ==
  /\ Initialized
  /\ calls < PanelMaxCalls
  /\ \E x \in PanelTempos : Sequencer_setBPM(x)
  /\ calls' = calls + 1

PanelSetCurrentMode ==
  /\ Initialized
  /\ calls < PanelMaxCalls
  /\ \E m \in PanelModes : Sequencer_setCurrentMode(m)
  /\ calls' = calls + 1

PanelSetCurrentTrack ==
  /\ Initialized
  /\ calls < PanelMaxCalls
  /\ \E t \in PanelTracks : Sequencer_setCurrentTrack(t)
  /\ calls' = calls + 1

\* with the edit mode at 15, recordEvent and the pattern pot index
\* currentPatterns[15], one past the array: the panel is left alone there
PanelUpdate ==
  /\ Initialized
  /\ last.op # "Sequencer::update"
  /\ Sequencer_update(NoInput)
  /\ UNCHANGED calls

PanelGesture ==
  /\ Initialized
  /\ last.op # "Sequencer::update"
  /\ calls < PanelMaxCalls
  /\ currentMode \in Modes
  /\ \E g \in PanelGestures : Sequencer_update(g)
  /\ calls' = calls + 1

PanelTick ==
  /\ Initialized
  /\ last.op # "tick"
  /\ \E d \in PanelTicks : elapsed + d <= PanelHorizon /\ Millis_advance(d)

NextPanel ==
  \/ PanelSetup \/ PanelStart \/ PanelStop \/ PanelSetBPM
  \/ PanelSetCurrentMode \/ PanelSetCurrentTrack \/ PanelUpdate
  \/ PanelGesture \/ PanelTick

SpecPanel == InitPanel /\ [][NextPanel]_vars

(***************************************************************************)
(* Claims about recording and the cursors                                  *)
(***************************************************************************)
\* the Event a song holds in cell c
EventAt(sg, c) == IF c \in DOMAIN sg THEN sg[c] ELSE 0

\* the three bits of an Event above the switch
HighBits(data) == data \div (2 * SWITCH_MASK)

\* what recordEvent makes of the Event old with the sliders as given
Recorded(old, new, sliders) ==
  /\ GetSwitch(new) = ~GetSwitch(old)
  /\ \A i \in 0 .. 3 : GetPot(new, i) = BitAnd(sliders[i + 1], 127)
  /\ HighBits(new) = HighBits(old)

RecordsPressedStepsOnly ==
  (last'.op = "Sequencer::update" /\ updTimes' # updTimes) =>
    LET in == last'.inputs
        hit == {Cell(currentMode, currentPatterns[currentMode],
                     currentTrack, b) : b \in in.buttons}
    IN /\ \A c \in hit :
            Recorded(EventAt(song, c), EventAt(song', c), in.sliders)
       /\ \A c \in (DOMAIN song \cup DOMAIN song') \ hit :
            EventAt(song', c) = EventAt(song, c)
       /\ last'.steps = <<>> =>
            /\ currentStep' = currentStep
            /\ admitted' = admitted
            /\ \A id \in ActiveIds(events') : id \in ActiveIds(events)
            /\ in.pots[3] = -1 => currentPatterns' = currentPatterns

C24_IndicesInRange ==
  /\ currentStep \in 0 .. (NUM_EVENTS - 1)
  /\ sequencePosition \in 0 .. (NUM_EVENTS - 1)
  /\ currentTrack \in 0 .. (NUM_TRACKS - 1)
  /\ currentMode \in 0 .. (NUM_MODES - 1)
  /\ \A m \in Modes : currentPatterns[m] \in 0 .. (NUM_PATTERNS - 1)

(***************************************************************************)
(* Claims about the step loop and the clock                                *)
(***************************************************************************)
\* the tempo is within what setBPM leaves, and a step takes 18..750 ms
TempoClamped ==
  Initialized =>
    /\ 20 * bpm.den <= bpm.num /\ bpm.num <= 800 * bpm.den
    /\ stepInterval >= 1
    /\ stepInterval \in 18 .. 750
    /\ stepInterval = (15000 * bpm.den) \div bpm.num

\* the while loop of update() ran floor(elapsed / stepInterval) times, with
\* the interval handleInput left and the anchor the call found
LoopRunsFloor ==
  (last'.op = "Sequencer::update" /\ updTimes' # updTimes) =>
    /\ stepInterval' >= 1
    /\ Len(last'.steps) =
         IF isPlaying THEN Since(now, lastStepTime) \div stepInterval' ELSE 0
    /\ Len(last'.steps) * stepInterval' <= Since(now, lastStepTime)
    /\ isPlaying => Since(now, lastStepTime') < stepInterval'

\* C25: the catch-up loop of update() terminates: every tempo setBPM leaves
\* is within 20..800 BPM, the step interval is then at least 1 ms, and the
\* loop runs exactly floor(elapsed / stepInterval) times.
C25_CatchUpLoopRunsFloor == [][LoopRunsFloor]_vars /\ []TempoClamped

\* C25 witness: setBPM(1000) left 800 BPM and 18 ms per step; the update()
\* 375 ms after the last step ran the loop 20 times and left 15 ms.
C25_Witness ==
  /\ last.op = "Sequencer::update"
  /\ bpm = [num |-> 800, den |-> 1] /\ stepInterval = 18
  /\ last.playing /\ Since(last.t, last.stepAnchor) = 375
  /\ Len(last.steps) = 20
  /\ Since(now, lastStepTime) = 15

(***************************************************************************)
(* The clock: loop() running update() every millisecond                    *)
(***************************************************************************)
\* 760 ms: one step at 20 BPM, six at 120 BPM, forty-two at 800 BPM
ClockHorizon == 760

\* tempos set right after setup(), which itself sets 120 BPM
ClockTempos == {[num |-> 20, den |-> 1], [num |-> 800, den |-> 1]}

ClockSetup ==
  /\ ~Initialized
  /\ Sequencer_setup(ShippedModes)
  /\ UNCHANGED calls

ClockSetBPM ==
  /\ Initialized
  /\ last.op = "setup"
  /\ \E x \in ClockTempos : Sequencer_setBPM(x)
  /\ calls' = calls + 1

ClockUpdate ==
  /\ Initialized
  /\ last.op # "Sequencer::update"
  /\ Sequencer_update(NoInput)
  /\ UNCHANGED calls

\* one millisecond passes once update() has run in this one
ClockTick ==
  /\ last.op = "Sequencer::update"
  /\ elapsed < ClockHorizon
  /\ Millis_advance(1)

NextClock == ClockSetup \/ ClockSetBPM \/ ClockUpdate \/ ClockTick

SpecClock == InitPanel /\ [][NextClock]_vars

\* usbMIDI.sendRealTime(Clock) calls so far
ClockPulses ==
  Len(SelectSeq(sink, LAMBDA c : c.call = "sendRealTime" /\ c.a = 248))

\* steps played since start(), the tempo being the one set at time 0
StepsPlayed == elapsed \div stepInterval

\* C26: 24 pulses per quarter note: with update() run every millisecond,
\* six clock messages go out per step at every tempo, so that 6 n of them
\* have gone out when the n-th step is played, and the step interval is
\* six clock intervals.
C26_SixPulsesPerStep ==
  /\ Initialized => stepInterval = 6 * clockInterval
  /\ (last.op = "Sequencer::update" /\ last.steps # <<>>) =>
       ClockPulses = 6 * StepsPlayed

(***************************************************************************)
(* A MIDIEventBuffer filled by its caller                                  *)
(***************************************************************************)
\* calls made on the buffer in one run
BufferMaxCalls == 38
\* the sizes at which the caller picks among the four kinds of message; at
\* the other sizes it adds the note-on of the next pitch
BufferChoiceSizes == {0, 1, 31, 32}

\* bool add(const MIDIEvent& event), reached through op
MIDIEventBuffer_add(op, event) ==
  /\ calls < BufferMaxCalls
  /\ eventBuffer' = BufferAdd(eventBuffer, event)
  /\ last' = [op |-> op, ret |-> eventBuffer'.failed = eventBuffer.failed,
              event |-> event]
  /\ calls' = calls + 1
  /\ UNCHANGED <<now, elapsed, events, admitted, updTimes, cleared, sink,
                 requests>>
  /\ UNCHANGED <<song, modes, currentPatterns, currentStep, currentTrack,
                 currentMode, sequencePosition, bpm, stepInterval,
                 clockInterval, lastStepTime, lastClockTime, sendClock,
                 isPlaying, led, lastSliderDebug, stops, heard, registry,
                 started>>

MIDIEventBuffer_noteOn(channel, note, velocity, delta) ==
  MIDIEventBuffer_add("MIDIEventBuffer::noteOn",
                      NoteOn(channel, note, velocity, delta))

MIDIEventBuffer_noteOff(channel, note, delta) ==
  MIDIEventBuffer_add("MIDIEventBuffer::noteOff",
                      NoteOff(channel, note, delta))

MIDIEventBuffer_cc(channel, controller, value, delta) ==
  MIDIEventBuffer_add("MIDIEventBuffer::cc",
                      ControlChange(channel, controller, value, delta))

MIDIEventBuffer_stopAll(channel, delta) ==
  MIDIEventBuffer_add("MIDIEventBuffer::stopAll",
                      MIDIEvent("STOP_ALL", channel, 0, 0, delta))

\* void clear() { count = 0; }
MIDIEventBuffer_clear ==
  /\ calls < BufferMaxCalls
  /\ eventBuffer' = [eventBuffer EXCEPT !.events = <<>>]
  /\ last' = [op |-> "MIDIEventBuffer::clear", ret |-> 0]
  /\ calls' = calls + 1
  /\ UNCHANGED <<now, elapsed, events, admitted, updTimes, cleared, sink,
                 requests>>
  /\ UNCHANGED <<song, modes, currentPatterns, currentStep, currentTrack,
                 currentMode, sequencePosition, bpm, stepInterval,
                 clockInterval, lastStepTime, lastClockTime, sendClock,
                 isPlaying, led, lastSliderDebug, stops, heard, registry,
                 started>>

Size == Len(eventBuffer.events)

BufferNoteOn ==
  MIDIEventBuffer_noteOn(1, 36 + Size, 100, 0)

BufferNoteOff ==
  /\ Size \in BufferChoiceSizes
  /\ MIDIEventBuffer_noteOff(1, 36 + Size, 100)

BufferCc ==
  /\ Size \in BufferChoiceSizes
  /\ MIDIEventBuffer_cc(1, 10, 64, 0)

BufferStopAll ==
  /\ Size \in BufferChoiceSizes
  /\ MIDIEventBuffer_stopAll(16, 5)

\* the caller empties the buffer once it holds something, as processStep
\* does after scheduleAll
BufferClear ==
  /\ Size \in {3, MAX_EVENTS}
  /\ MIDIEventBuffer_clear

NextBuffer ==
  BufferNoteOn \/ BufferNoteOff \/ BufferCc \/ BufferStopAll \/ BufferClear

SpecBuffer == InitIndex /\ [][NextBuffer]_vars

BufferAddOps ==
  {"MIDIEventBuffer::noteOn", "MIDIEventBuffer::noteOff",
   "MIDIEventBuffer::cc", "MIDIEventBuffer::stopAll"}

\* an add with room appends at index size() and returns true; an add at 32
\* returns false and leaves the stored messages alone; clear() empties
BufferCallsRight ==
  /\ (last'.op \in BufferAddOps /\ calls' = calls + 1) =>
       IF Size < MAX_EVENTS
       THEN /\ last'.ret = TRUE
            /\ Len(eventBuffer'.events) = Size + 1
            /\ eventBuffer'.events[Size + 1] = last'.event
            /\ \A k \in 1 .. Size :
                 eventBuffer'.events[k] = eventBuffer.events[k]
       ELSE /\ last'.ret = FALSE
            /\ eventBuffer'.events = eventBuffer.events
  /\ (last'.op = "MIDIEventBuffer::clear" /\ calls' = calls + 1) =>
       Len(eventBuffer'.events) = 0

BufferWithinCapacity ==
  /\ Size \in 0 .. MAX_EVENTS
  /\ MAX_EVENTS = 32
  /\ Remaining(eventBuffer) = 32 - Size

\* C27: a MIDIEventBuffer holds at most 32 messages in insertion order: an
\* add through add, noteOn, noteOff, cc or stopAll returns true and appends
\* at index size() while size() < 32, and returns false leaving size and
\* messages unchanged at 32; remaining() = 32 - size(); clear() sets the
\* size to 0.
C27_BufferHoldsFirst32 == [][BufferCallsRight]_vars /\ []BufferWithinCapacity

\* C27 witness: the buffer was filled, emptied and filled again; the
\* stop-all added at size 32 was refused, the 32 messages are those added
\* since the clear(), in the order they were added.
C27_Witness ==
  /\ last.op = "MIDIEventBuffer::stopAll" /\ last.ret = FALSE
  /\ Size = MAX_EVENTS /\ Remaining(eventBuffer) = 0
  /\ eventBuffer.failed = 2
  /\ calls = BufferMaxCalls
  /\ eventBuffer.events[1].type = "CC"
  /\ eventBuffer.events[2].type = "NOTE_OFF"
  /\ \A k \in 3 .. 31 : eventBuffer.events[k] = NoteOn(1, 35 + k, 100, 0)
  /\ eventBuffer.events[32].type = "STOP_ALL"

(***************************************************************************)
(* One Event and its setters                                               *)
(***************************************************************************)
\* the largest value handed to setPot, and the largest pot index
PotValueTop == 255
PotIndexTop == 4

\* the Events setPot is applied to: empty, switch on with every pot at its
\* top, switch off with four different pots, and three raw words (setRaw)
\* with bits 29 and 30, above the switch, set; a word with bit 31 set is
\* beyond TLC's integers
EventInputs ==
  { 0, NewEvent(TRUE, 127, 127, 127, 127), NewEvent(FALSE, 1, 2, 3, 4),
    2147483647, 1073741824 + NewEvent(FALSE, 100, 0, 64, 0),
    536870912 + NewEvent(TRUE, 0, 127, 0, 127) }

\* where the Event under test lives
TestCell == Cell(1, 0, 0, 0)
TestEvent == EventAt(song, TestCell)

InitEvent ==
  /\ now = 0
  /\ InitSched
  /\ \E e \in EventInputs : Constructed(MakeSong({<<1, 0, 0, 0, e>>}))

\* song.getPattern(1, 0).getTrack(0).getEvent(0).setPot(index, value)
Event_setPot(index, value) ==
  /\ last.op = "construct"
  /\ song' = WriteEvent(song, 1, 0, 0, 0, SetPot(TestEvent, index, value))
  /\ last' = [op |-> "Event::setPot", ret |-> 0, index |-> index,
              value |-> value, before |-> TestEvent]
  /\ calls' = calls + 1
  /\ UNCHANGED <<now, elapsed, events, admitted, updTimes, cleared, sink,
                 requests>>
  /\ UNCHANGED <<modes, currentPatterns, currentStep, currentTrack,
                 currentMode, sequencePosition, bpm, stepInterval,
                 clockInterval, lastStepTime, lastClockTime, sendClock,
                 isPlaying, led, lastSliderDebug, stops, heard,
                 eventBuffer, registry, started>>

NextEvent ==
  \E index \in 0 .. PotIndexTop, value \in 0 .. PotValueTop :
     Event_setPot(index, value)

SpecEvent == InitEvent /\ [][NextEvent]_vars

\* C28: after setPot(i, v) with i in 0..3 and v any 8-bit value,
\* getPot(i) = v & 0x7F, a value above 127 being truncated and not
\* saturated, and the switch, the other three pots and the three bits above
\* the switch are as before.
C28_SetPotMasksToSevenBits ==
  (last.op = "Event::setPot" /\ last.index \in 0 .. 3) =>
    /\ GetPot(TestEvent, last.index) = last.value % 128
    /\ GetPot(TestEvent, last.index) = BitAnd(last.value, 127)
    /\ GetSwitch(TestEvent) = GetSwitch(last.before)
    /\ \A j \in (0 .. 3) \ {last.index} :
         GetPot(TestEvent, j) = GetPot(last.before, j)
    /\ HighBits(TestEvent) = HighBits(last.before)

\* C28 witness: setPot(1, 200) on the raw word with bits 0..30 set: pot 1
\* reads 72, the other pots 127, the switch is on and bits 29 and 30 are
\* set.
C28_Witness ==
  /\ last.op = "Event::setPot" /\ last.index = 1 /\ last.value = 200
  /\ last.before = 2147483647
  /\ GetPot(TestEvent, 1) = 72
  /\ GetPot(TestEvent, 0) = 127 /\ GetPot(TestEvent, 2) = 127
  /\ GetPot(TestEvent, 3) = 127
  /\ GetSwitch(TestEvent) /\ HighBits(TestEvent) = 3

(***************************************************************************)
(* A ModeRegistry and its caller                                           *)
(***************************************************************************)
RegistryMaxCalls == 3

\* the indices handed to the registry, and the Mode objects of the heap
RegistryIndices == {0, 1, 14, 15, 255}
Pointers == {1, 2, 3}

\* the caller hands over nullptr or an object of its own: one the registry
\* neither holds nor has deleted
ModeRegistry_registerMode(index, mode) ==
  /\ calls < RegistryMaxCalls
  /\ mode \notin registry.deleted
  /\ \A i \in 0 .. (NUM_MODES - 1) :
       mode = nullptr \/ registry.modes[i] # mode
  /\ \E r \in {RegisterMode(registry, index, mode)} :
        /\ registry' = r.reg
        /\ last' = [op |-> "ModeRegistry::registerMode", ret |-> r.ret,
                    index |-> index, mode |-> mode]
  /\ calls' = calls + 1
  /\ UNCHANGED <<now, elapsed, events, admitted, updTimes, cleared, sink,
                 requests>>
  /\ UNCHANGED <<song, modes, currentPatterns, currentStep, currentTrack,
                 currentMode, sequencePosition, bpm, stepInterval,
                 clockInterval, lastStepTime, lastClockTime, sendClock,
                 isPlaying, led, lastSliderDebug, stops, heard, eventBuffer,
                 started>>

ModeRegistry_unregisterMode(index) ==
  /\ calls < RegistryMaxCalls
  /\ registry' = UnregisterMode(registry, index)
  /\ last' = [op |-> "ModeRegistry::unregisterMode", ret |-> 0,
              index |-> index]
  /\ calls' = calls + 1
  /\ UNCHANGED <<now, elapsed, events, admitted, updTimes, cleared, sink,
                 requests>>
  /\ UNCHANGED <<song, modes, currentPatterns, currentStep, currentTrack,
                 currentMode, sequencePosition, bpm, stepInterval,
                 clockInterval, lastStepTime, lastClockTime, sendClock,
                 isPlaying, led, lastSliderDebug, stops, heard, eventBuffer,
                 started>>

RegistryRegister ==
  \E index \in RegistryIndices, mode \in Pointers \cup {nullptr} :
     ModeRegistry_registerMode(index, mode)

RegistryUnregister ==
  \E index \in RegistryIndices : ModeRegistry_unregisterMode(index)

NextRegistry == RegistryRegister \/ RegistryUnregister

SpecRegistry == InitIndex /\ [][NextRegistry]_vars

\* the slot registerMode(index, ...) finds occupied
Occupied(index) == index < NUM_MODES /\ registry.modes[index] # nullptr

RegisterRefusesBadCalls ==
  (last'.op = "ModeRegistry::registerMode" /\ calls' = calls + 1) =>
    IF \/ last'.index >= NUM_MODES
       \/ last'.mode = nullptr
       \/ Occupied(last'.index)
    THEN last'.ret = FALSE /\ registry' = registry
    ELSE /\ last'.ret = TRUE
         /\ registry'.modes =
              [registry.modes EXCEPT ![last'.index] = last'.mode]

\* C29: registerMode(index, mode) returns true only if it succeeds; it
\* returns false and leaves the registry unchanged when the index is 15 or
\* more, the mode pointer is null, or the slot at index is occupied.
C29_RegisterRefusesBadCalls == [][RegisterRefusesBadCalls]_vars

(***************************************************************************)
(* One step processed                                                      *)
(***************************************************************************)
StepMaxCalls == 2
StepHorizon == 250

\* the demo song with a second drum pattern: hats on steps 0 and 1 of
\* pattern 31
PatternSong ==
  MakeSong({<<c[1], c[2], c[3], c[4], SparseSong[c]>> :
              c \in DOMAIN SparseSong} \cup
           {<<1, 31, 2, 0, NewEvent(TRUE, 90, 0, 0, 0)>>,
            <<1, 31, 2, 1, NewEvent(TRUE, 60, 0, 40, 0)>>})

\* the player selects pattern 31 for the drum mode, or the bass mode for
\* editing
StepGestures ==
  { [NoInput EXCEPT !.pots = <<-1, -1, 127, -1>>],
    [NoInput EXCEPT !.pots = <<-1, 20, -1, -1>>] }

\* processStep() as update() calls it once per step due
Sequencer_processStep ==
  \E q \in {ProcessStep(Q, now, Len(updTimes))} :
     /\ Commit(q)
     /\ last' = [op |-> "Sequencer::processStep", ret |-> 0,
                 invoked |-> q.log.invoked]
     /\ UNCHANGED <<now, elapsed, updTimes, cleared, stops, heard,
                    eventBuffer, registry, started>>

InitStep ==
  /\ now = 0
  /\ InitSched
  /\ Constructed(PatternSong)

StepUpdate ==
  /\ Initialized
  /\ last.op # "Sequencer::update"
  /\ Sequencer_update(NoInput)
  /\ UNCHANGED calls

StepGesture ==
  /\ Initialized
  /\ last.op # "Sequencer::update"
  /\ calls < StepMaxCalls
  /\ \E g \in StepGestures : Sequencer_update(g)
  /\ calls' = calls + 1

StepProcess ==
  /\ Initialized
  /\ calls < StepMaxCalls
  /\ Sequencer_processStep
  /\ calls' = calls + 1

StepTick ==
  /\ Initialized
  /\ last.op # "tick"
  /\ elapsed + 125 <= StepHorizon
  /\ Millis_advance(125)

NextStep == AppSetup \/ StepUpdate \/ StepGesture \/ StepProcess \/ StepTick

SpecStep == InitStep /\ [][NextStep]_vars

\* the registered slots, and the n-th of them in ascending order (n from 0)
RegisteredSlots == {m \in Modes : modes[m].kind # "nullptr"}
NthRegistered(n) ==
  CHOOSE m \in RegisteredSlots :
    Cardinality({x \in RegisteredSlots : x < m}) = n

ProcessStepVisitsEveryPair ==
  (last'.op = "Sequencer::processStep" /\ calls' = calls + 1) =>
    /\ Len(last'.invoked) = NUM_TRACKS * Cardinality(RegisteredSlots)
    /\ \A k \in 1 .. Len(last'.invoked) :
         LET m == NthRegistered((k - 1) \div NUM_TRACKS)
             v == (k - 1) % NUM_TRACKS
         IN /\ last'.invoked[k].mode = m
            /\ last'.invoked[k].track = v
            /\ last'.invoked[k].event =
                 EventAt(song, <<m, currentPatterns[m], v, currentStep>>)
    /\ UNCHANGED <<song, currentPatterns, currentStep>>

\* C30: processStep invokes processEvent exactly once for each pair (m, v),
\* m a registered slot in 0..14 and v in 0..7, in ascending order of m and
\* then of v, each time with the Event stored at (m, the pattern selected
\* for m, v, the current step); unregistered slots cause no invocation;
\* the Song, the selected patterns and the step cursor are left unchanged.
C30_ProcessStepVisitsEveryPair == [][ProcessStepVisitsEveryPair]_vars

\* C30 witness: three slots registered, pattern 31 selected for the drum
\* mode, the step cursor at 1: 24 invocations, the 11th for (1, 2) with the
\* hat of pattern 31, the 17th for (2, 0) with the bass note of pattern 0.
C30_Witness ==
  /\ last.op = "Sequencer::processStep"
  /\ RegisteredSlots = {0, 1, 2}
  /\ currentPatterns[1] = 31 /\ currentPatterns[2] = 0 /\ currentStep = 1
  /\ Len(last.invoked) = 24
  /\ last.invoked[11] = [mode |-> 1, track |-> 2,
                         event |-> NewEvent(TRUE, 60, 0, 40, 0)]
  /\ last.invoked[17] = [mode |-> 2, track |-> 0,
                         event |-> NewEvent(TRUE, 64, 127, 20, 0)]

(***************************************************************************)
(* Playback across loop wraps                                              *)
(***************************************************************************)
WrapMaxCalls == 1
\* 4250 ms: thirty-four steps at 120 BPM, two wraps of the step cursor
WrapHorizon == 4250
WrapTicks == {125, 1875}

\* meta-track: slot 0 selects pattern 8, slot 1 pattern 0, slot 2 is
\* empty; a kick on step 0 of drum pattern 0, a snare on steps 0 and 1 of
\* drum pattern 8
WrapSong ==
  MakeSong({<<0, 0, 0, 0, NewEvent(TRUE, 32, 0, 0, 0)>>,
            <<0, 0, 0, 1, NewEvent(TRUE, 0, 0, 0, 0)>>,
            <<1, 0, 0, 0, NewEvent(TRUE, 127, 64, 0, 0)>>,
            <<1, 8, 1, 0, NewEvent(TRUE, 100, 0, 0, 0)>>,
            <<1, 8, 1, 1, NewEvent(TRUE, 90, 0, 0, 0)>>})

InitWrap ==
  /\ now = 0
  /\ InitSched
  /\ Constructed(WrapSong)

WrapSetup ==
  /\ ~Initialized
  /\ Sequencer_setup(ShippedModes)
  /\ UNCHANGED calls

WrapStart ==
  /\ Initialized
  /\ calls < WrapMaxCalls
  /\ Sequencer_start
  /\ calls' = calls + 1

WrapStop ==
  /\ Initialized /\ isPlaying
  /\ calls < WrapMaxCalls
  /\ Sequencer_stop
  /\ calls' = calls + 1

WrapUpdate ==
  /\ Initialized
  /\ last.op # "Sequencer::update"
  /\ Sequencer_update(NoInput)
  /\ UNCHANGED calls

WrapTick ==
  /\ Initialized
  /\ last.op # "tick"
  /\ \E d \in WrapTicks : elapsed + d <= WrapHorizon /\ Millis_advance(d)

NextWrap == WrapSetup \/ WrapStart \/ WrapStop \/ WrapUpdate \/ WrapTick

SpecWrap == InitWrap /\ [][NextWrap]_vars

\* the cursors and selected patterns found by the k-th call of a trace
\* that started from the current state
TraceBefore(tr, k) ==
  IF k = 1
  THEN [step |-> currentStep, position |-> sequencePosition,
        patterns |-> currentPatterns]
  ELSE [step |-> tr[k - 1].step, position |-> tr[k - 1].position,
        patterns |-> tr[k - 1].patterns]

\* what one run of the protocol makes of b
ProtocolFrom(b) ==
  UpdatePatternFromSequence([Q EXCEPT !.sequencePosition = b.position,
                                      !.currentPatterns = b.patterns])

ProtocolOnlyAtWrap ==
  /\ (last'.op = "Sequencer::update" /\ updTimes' # updTimes) =>
       LET tr == last'.trace
       IN \A k \in 1 .. Len(tr) :
            LET b == TraceBefore(tr, k)
            IN CASE tr[k].call = "updatePatternFromSequence" ->
                      /\ b.step = 15 /\ tr[k].step = 0
                      /\ tr[k].position = ProtocolFrom(b).sequencePosition
                      /\ tr[k].patterns = ProtocolFrom(b).currentPatterns
                      /\ k + 2 <= Len(tr)
                      /\ tr[k + 1].call = "setLEDBrightness"
                      /\ tr[k + 1].led = 255
                      /\ tr[k + 2].call = "processStep"
                      /\ tr[k + 2].step = 0
                      /\ tr[k + 2].patterns = tr[k].patterns
                 [] tr[k].call = "setLEDBrightness" ->
                      /\ tr[k].patterns = b.patterns
                      /\ tr[k].position = b.position
                      /\ IF tr[k].step = 0
                         THEN /\ tr[k].led = 255 /\ k > 1
                              /\ tr[k - 1].call = "updatePatternFromSequence"
                         ELSE tr[k].led = 5 /\ tr[k].step = b.step + 1
                 [] tr[k].call = "processStep" ->
                      /\ k > 1 /\ tr[k - 1].call = "setLEDBrightness"
                      /\ tr[k].step = b.step
                      /\ tr[k].patterns = b.patterns
                      /\ tr[k].position = b.position
  /\ (last'.op = "Sequencer::update" /\ updTimes' # updTimes
        /\ last'.trace # <<>>) =>
       /\ currentPatterns' = last'.trace[Len(last'.trace)].patterns
       /\ sequencePosition' = last'.trace[Len(last'.trace)].position
  /\ (last'.op \in {"Sequencer::start", "Sequencer::stop"}
        \/ (last'.op = "Sequencer::update" /\ last'.trace = <<>>)) =>
       UNCHANGED <<sequencePosition, currentPatterns>>

\* C31: the pattern-sequencing protocol runs exactly once each time the
\* step cursor goes from 15 to 0 and at no other time, not on start() and
\* not on other steps; it has completed, and the LED has been set to 255
\* after it, before step 0 is processed, so that step 0 is played from the
\* newly selected patterns.
C31_ProtocolOnlyAtWrap == [][ProtocolOnlyAtWrap]_vars

\* C31 witness: the update() 2000 ms after start() wrapped the step cursor:
\* the protocol ran from slot 0 and selected pattern 8 where pattern 0 had
\* played, the LED went to 255, and step 0 was processed with pattern 8.
C31_Witness ==
  /\ last.op = "Sequencer::update" /\ Len(last.trace) = 3
  /\ last.step = 15
  /\ last.trace[1].call = "updatePatternFromSequence"
  /\ last.trace[1].patterns[1] = 8 /\ last.trace[1].position = 1
  /\ last.trace[2].call = "setLEDBrightness" /\ last.trace[2].led = 255
  /\ last.trace[3].call = "processStep" /\ last.trace[3].step = 0
  /\ last.trace[3].patterns[1] = 8
  /\ currentStep = 0 /\ currentPatterns[1] = 8 /\ sequencePosition = 1
  /\ \E n \in 1 .. Len(requests) :
       requests[n].type = "NOTE_ON" /\ requests[n].at = now
         /\ requests[n].data1 = drumNotes[2]

(***************************************************************************)
(* Claims about the order and the time of delivery                         *)
(***************************************************************************)
\* the fire time of an admitted message, the counter not having wrapped
FireTime(m) == m.at + m.delta

\* no fire time of the run lies beyond the wrap of millis()
NothingWrapped ==
  /\ now >= elapsed
  /\ \A id \in 1 .. Len(admitted) :
       admitted[id].exec = FireTime(admitted[id])

\* C32: messages reach the sink in fire-time order: of two messages that
\* were pending together, the one with the earlier fire time never reaches
\* the sink after the other, whatever slots they hold and however late the
\* update() that finds them due.
C32_SinkInFireTimeOrder ==
  NothingWrapped =>
    \A j \in 1 .. Len(sink), k \in 1 .. Len(sink) :
      (/\ j < k
       /\ sink[j].id > 0 /\ sink[k].id > 0
       /\ admitted[sink[k].id].epoch < sink[j].upd) =>
        FireTime(admitted[sink[j].id]) <= FireTime(admitted[sink[k].id])

(***************************************************************************)
(* Loop after loop of a programmed meta-track                              *)
(***************************************************************************)
\* one loop of 16 steps at 120 BPM, and 34 of them
CycleLoop == 2000
CycleHorizon == 68000
\* gestures made in one run, within the first loops
CycleMaxCalls == 1
CycleGestureBy == 4000

\* the numbers of programmed slots
CycleLengths == {0, 1, 2, 3, 15, 16}

\* slots 0 .. k-1 programmed, slot j selecting pattern j + 1
CycleSong(k) ==
  MakeSong({<<0, 0, 0, j, NewEvent(TRUE, 4 * (j + 1), 0, 0, 0)>> :
              j \in 0 .. (k - 1)})

InitCycle ==
  /\ now = 0
  /\ InitSched
  /\ \E k \in CycleLengths : Constructed(CycleSong(k))

CycleSetup ==
  /\ ~Initialized
  /\ Sequencer_setup(ShippedModes)
  /\ UNCHANGED calls

\* during the update() of a loop the player selects pattern 10 for the
\* mode being edited, or turns to mode 0 and selects its pattern 31
CycleGestures ==
  { [NoInput EXCEPT !.pots = <<-1, -1, 40, -1>>],
    [NoInput EXCEPT !.pots = <<-1, 0, 127, -1>>] }

CycleGesture ==
  /\ Initialized /\ isPlaying
  /\ last.op # "Sequencer::update"
  /\ calls < CycleMaxCalls /\ elapsed <= CycleGestureBy
  /\ \E g \in CycleGestures : Sequencer_update(g)
  /\ calls' = calls + 1

CycleUpdate ==
  /\ Initialized /\ isPlaying
  /\ last.op # "Sequencer::update"
  /\ Sequencer_update(NoInput)
  /\ UNCHANGED calls

CycleTick ==
  /\ Initialized /\ isPlaying
  /\ last.op # "tick"
  /\ elapsed + CycleLoop <= CycleHorizon
  /\ Millis_advance(CycleLoop)

NextCycle == CycleSetup \/ CycleUpdate \/ CycleGesture \/ CycleTick

SpecCycle == InitCycle /\ [][NextCycle]_vars

\* the first meta-track slot that is not programmed, 16 if there is none
ProgrammedRun ==
  IF \A j \in 0 .. 15 : GetSwitch(EventAt(song, <<0, 0, 0, j>>)) THEN 16
  ELSE CHOOSE k \in 0 .. 15 :
         /\ ~GetSwitch(EventAt(song, <<0, 0, 0, k>>))
         /\ \A j \in 0 .. (k - 1) : GetSwitch(EventAt(song, <<0, 0, 0, j>>))

\* loop wraps so far, in a run updated once per loop
Wraps == elapsed \div CycleLoop

\* the slot whose target the n-th wrap applies when the targets repeat
\* with period k + 1 (16 when k = 16): slots 0 .. k-1, then slot 0 again
SlotOfWrap(n, k) ==
  LET r == (n - 1) % (IF k = 16 THEN 16 ELSE k + 1)
  IN IF r = k THEN 0 ELSE r

\* C33: with meta-track slots 0..k-1 active and slot k inactive, the
\* targets applied at successive loop wraps repeat with period k + 1: slot
\* 0, ..., slot k-1, then slot 0 again from the reset branch, which leaves
\* the cursor at 0, so that slot 0 is applied at two consecutive wraps;
\* with all 16 slots active the period is 16.
C33_TargetsRepeatWithPeriod ==
  (last.op = "Sequencer::update" /\ Wraps >= 1 /\ ProgrammedRun >= 1) =>
    LET k == ProgrammedRun
        r == (Wraps - 1) % (IF k = 16 THEN 16 ELSE k + 1)
        j == SlotOfWrap(Wraps, k)
    IN /\ \A i \in 1 .. (NUM_MODES - 1) :
            currentPatterns[i] = Target(EventAt(song, <<0, 0, 0, j>>))
       /\ sequencePosition = IF r = k THEN 0 ELSE (j + 1) % 16
       /\ Len(SelectSeq(last.trace, LAMBDA c :
                          c.call = "updatePatternFromSequence")) = 1

\* C33 witness: three slots programmed; the fourth wrap found the empty
\* slot 3 and applied slot 0 from the reset branch, and the fifth wrap,
\* this one, applied slot 0 again and moved the cursor to 1.
C33_Witness ==
  /\ last.op = "Sequencer::update" /\ Wraps = 5
  /\ ProgrammedRun = 3
  /\ SlotOfWrap(4, 3) = 0 /\ SlotOfWrap(5, 3) = 0 /\ SlotOfWrap(3, 3) = 2
  /\ currentPatterns[1] = 1 /\ sequencePosition = 1

(***************************************************************************)
(* Claims about the steps played after start()                             *)
(***************************************************************************)
\* the latest start(), and the step advances made since
LastStart == started[Len(started)]
AdvancesSinceStart == (lastStepTime - LastStart.at) \div stepInterval

\* the steps handed to processStep by the update() just made
ProcessedSteps(tr) ==
  LET ps == SelectSeq(tr, LAMBDA c : c.call = "processStep")
  IN [k \in 1 .. Len(ps) |-> ps[k].step]

StartProcessesNothing ==
  (started' # started) =>
    /\ currentStep' = 0 /\ isPlaying'
    /\ requests' = requests /\ admitted' = admitted /\ events' = events
    /\ sink' = Append(sink, RealTime(250))
    /\ AdvancesSinceStart' = 0

FirstStepIsOne ==
  (updTimes' # updTimes /\ isPlaying) =>
    LET n == AdvancesSinceStart
        m == AdvancesSinceStart'
        played == ProcessedSteps(last'.trace)
    IN /\ Len(played) = m - n /\ played = last'.steps
       /\ \A k \in 1 .. Len(played) : played[k] = (n + k) % NUM_EVENTS
       /\ (now < LastStart.at + (n + 1) * stepInterval) <=> (played = <<>>)
       /\ (n = 0 /\ played # <<>>) =>
            played[1] = 1 /\ now >= LastStart.at + stepInterval
       /\ \A k \in 1 .. Len(played) :
            played[k] = 0 => (n + k) % NUM_EVENTS = 0 /\ n + k >= NUM_EVENTS

CursorCountsAdvances ==
  (isPlaying /\ started # <<>>) =>
    currentStep = AdvancesSinceStart % NUM_EVENTS

\* C34: start() itself processes no step; after start() the first step to
\* be processed is step 1, at the first update() at least one step interval
\* after start(), and step 0 is processed for the first time on the 16th
\* step advance after start().
C34_FirstProcessedStepIsOne ==
  [][StartProcessesNothing /\ FirstStepIsOne]_vars /\ []CursorCountsAdvances

\* C34 witness: a second start() at 125 ms in the middle of the loop; 15
\* steps caught up at 2000 ms, and the update() at 2125 ms, this one,
\* makes the 16th advance and processes step 0.
C34_Witness ==
  /\ last.op = "Sequencer::update"
  /\ Len(started) = 2 /\ LastStart.at = 125 /\ LastStart.epoch = 1
  /\ now = 2125
  /\ last.steps = <<0>>
  /\ AdvancesSinceStart = 16

(***************************************************************************)
(* Claims about messages without delay                                     *)
(***************************************************************************)
\* the ids admitted, and the sink calls made, by the step just taken
NewIds == (Len(admitted) + 1) .. Len(admitted')
NewSinkCalls == (Len(sink) + 1) .. Len(sink')

ZeroDelayDeliveredAtOnce ==
  (updTimes' # updTimes) =>
    \A id \in NewIds :
      admitted'[id].delta = 0 =>
        /\ admitted'[id].exec = now
        /\ \E j \in NewSinkCalls :
              sink'[j].id = id /\ sink'[j].upd = Len(updTimes')

\* C35: a zero-delay message produced during step processing and admitted
\* to the pool is delivered to the sink within the same Sequencer::update()
\* call; in a catch-up update() of k overdue steps this holds for the
\* zero-delay messages of all k steps, every fire time being the current
\* time at the flush.
C35_ZeroDelayDeliveredAtOnce == [][ZeroDelayDeliveredAtOnce]_vars

\* the zero-delay messages admitted and delivered by the latest update()
DeliveredAtOnce ==
  {id \in 1 .. Len(admitted) :
     /\ admitted[id].delta = 0
     /\ admitted[id].epoch = Len(updTimes) - 1
     /\ admitted[id].at = last.t
     /\ \E j \in 1 .. Len(sink) :
           sink[j].id = id /\ sink[j].upd = Len(updTimes)}

\* C35 witness: a catch-up update() of 15 steps, steps 0 and 1 among them,
\* each of which produced a snare hit; both note-ons went out in this call.
C35_Witness ==
  /\ last.op = "Sequencer::update"
  /\ Len(last.steps) = 15
  /\ \E a \in 1 .. 14 : last.steps[a] = 0 /\ last.steps[a + 1] = 1
  /\ Cardinality(DeliveredAtOnce) >= 2
  /\ \A id \in DeliveredAtOnce : admitted[id].type = "NOTE_ON"

(***************************************************************************)
(* Claims about the buffer of processStep                                  *)
(***************************************************************************)
\* the messages produced by the processEvent calls b, in production order
Produced(b) == For(1, Len(b), <<>>, LAMBDA acc, k : acc \o b[k].out)

\* what a request says of a message
Passed(r) == MIDIEvent(r.type, r.channel, r.data1, r.data2, r.delta)

SmallCalls(b) == \A k \in 1 .. Len(b) : Len(b[k].out) <= 8

BufferKeepsMargin ==
  (updTimes' # updTimes) =>
    LET b == last'.buffered
        passed == SubSeq(requests', Len(requests) + 1, Len(requests'))
        produced == Produced(b)
    IN /\ \A k \in 1 .. Len(b) :
            b[k].held <= MAX_EVENTS - 8 /\ MAX_EVENTS - b[k].held >= 8
       /\ SmallCalls(b) =>
            /\ last'.addFailed = 0
            /\ Len(passed) = Len(produced)
            /\ \A i \in 1 .. Len(passed) :
                  passed[i].op = "scheduleAll" /\ Passed(passed[i]) = produced[i]

\* C36: at the start of every processEvent call made by processStep the
\* buffer holds at most 24 messages (remaining() >= 8); when every call
\* appends at most 8 messages, no append fails and every produced message
\* is passed to scheduleAll exactly once, in production order.
C36_BufferKeepsMargin == [][BufferKeepsMargin]_vars

\* C36 witness: an update() whose calls produced at most 8 messages each
\* and more than 32 together; one call found 24 messages held, the buffer
\* was flushed in the middle of the step, and no add() failed.
C36_Witness ==
  /\ last.op = "Sequencer::update"
  /\ SmallCalls(last.buffered)
  /\ Len(Produced(last.buffered)) > MAX_EVENTS
  /\ \E k \in 1 .. Len(last.buffered) : last.buffered[k].held = 24
  /\ \E k \in 2 .. Len(last.buffered) :
        /\ last.buffered[k].held = 0
        /\ last.buffered[k - 1].out # <<>>
  /\ last.addFailed = 0

(***************************************************************************)
(* Claims about delivery across the wrap of millis()                       *)
(***************************************************************************)
\* milliseconds from the start of the run to the counter reading t taken
\* during the run
RunTime(t) == Since(t, Wrap(now - elapsed))

\* t + d of a message, in milliseconds from the start of the run
DueAt(m) == RunTime(m.at) + m.delta

\* C37: a message scheduled at time t with delay d is never delivered by an
\* update() whose time is earlier than t + d, and is delivered by the first
\* update() at or after t + d, also when the millisecond counter wraps
\* around between scheduling and firing.
C37_DeliveredAtTrueFireTime ==
  /\ \A k \in 1 .. Len(sink) :
       sink[k].id > 0 =>
         RunTime(updTimes[sink[k].upd]) >= DueAt(admitted[sink[k].id])
  /\ \A id \in 1 .. Len(admitted) :
       \A u \in (admitted[id].epoch + 1) .. Len(updTimes) :
         (id \notin cleared /\ RunTime(updTimes[u]) >= DueAt(admitted[id])) =>
           \E k \in 1 .. Len(sink) : sink[k].id = id /\ sink[k].upd <= u

(***************************************************************************)
(* Claims about update() while stopped                                     *)
(***************************************************************************)
\* the slots update() finds pending and due
DueSlots == {i \in Slots : events[i].active /\ now >= events[i].executeTime}

StoppedUpdateOnlyListens ==
  (updTimes' # updTimes /\ ~isPlaying) =>
    LET in == last'.inputs
        heardInput == HandleInput(Q, in, now)
    IN /\ ~isPlaying'
       /\ last'.steps = <<>> /\ last'.trace = <<>> /\ last'.buffered = <<>>
       /\ ~last'.pulsed /\ last'.pulses = 0
       /\ requests' = requests /\ admitted' = admitted
       /\ currentStep' = currentStep
       /\ lastStepTime' = lastStepTime /\ lastClockTime' = lastClockTime
       /\ sequencePosition' = sequencePosition
       /\ in.pots[3] = -1 => currentPatterns' = currentPatterns
       /\ <<song', currentMode', currentTrack', currentPatterns', bpm'>> =
            <<heardInput.song, heardInput.currentMode,
              heardInput.currentTrack, heardInput.currentPatterns,
              heardInput.bpm>>
       /\ SubSeq(sink', 1, Len(heardInput.sink)) = heardInput.sink
       /\ \A k \in (Len(sink) + 1) .. Len(heardInput.sink) :
            sink'[k].id = 0 /\ sink'[k].call = "sendControlChange"
       /\ Len(sink') = Len(heardInput.sink) + Cardinality(DueSlots)
       /\ \A i \in DueSlots :
            /\ ~events'[i].active
            /\ \E k \in (Len(heardInput.sink) + 1) .. Len(sink') :
                  sink'[k] = SinkCall(events[i], Len(updTimes'))
       /\ \A i \in Slots \ DueSlots : events'[i] = events[i]

\* C38: while Stopped, update() advances and processes no step, emits no
\* clock pulse and leaves the step cursor, both timing anchors, the
\* meta-sequence cursor and the selected patterns untouched by playback; it
\* still applies recording and navigation input and still runs the
\* scheduler, which fires every pending message that is due.
C38_StoppedUpdateOnlyListens == [][StoppedUpdateOnlyListens]_vars

\* C38 witness: stopped more than one step ago, the player pressed button
\* 1 during an update(): step 1 of the drum track was recorded, the stop-all
\* messages of stop() went out, and the cursor and anchors are those stop()
\* left.
C38_Witness ==
  /\ last.op = "Sequencer::update" /\ ~last.playing /\ ~isPlaying
  /\ last.inputs.buttons = {1}
  /\ Since(now, lastStepTime) >= 2 * stepInterval
  /\ GetSwitch(EventAt(song, <<1, 0, 0, 1>>))
  /\ stops # <<>>
  /\ \E k \in 1 .. Len(sink) :
        /\ sink[k].upd = Len(updTimes) /\ sink[k].id > 0
        /\ admitted[sink[k].id].type = "STOP_ALL"
  /\ last.steps = <<>> /\ currentStep = last.step

(***************************************************************************)
(* Claims about an empty meta-track                                        *)
(***************************************************************************)
\* the update() just made ran the protocol
Wrapped(tr) == \E k \in 1 .. Len(tr) : tr[k].call = "updatePatternFromSequence"

EmptyWrapKeepsSelections ==
  (updTimes' # updTimes /\ Wrapped(last'.trace) /\ ProgrammedRun = 0
     /\ EmptyMetaTrack) =>
    /\ currentPatterns' = HandleInput(Q, last'.inputs, now).currentPatterns
    /\ last'.inputs.pots[3] = -1 => currentPatterns' = currentPatterns
    /\ \A k \in 1 .. Len(last'.trace) :
         last'.trace[k].patterns = currentPatterns'
    /\ sequencePosition = 0 /\ sequencePosition' = 0

\* C39: with every meta-track Event inactive, a loop wrap leaves all 15
\* selected patterns unchanged whatever their current values (no selector
\* is written, none is forced to 0) and leaves the meta cursor at 0.
C39_EmptyWrapKeepsSelections == [][EmptyWrapKeepsSelections]_vars

\* C39 witness: the player put mode 0 on pattern 31 during the first loop;
\* thirty wraps later mode 0 is still on pattern 31, the other modes on 0.
C39_Witness ==
  /\ last.op = "Sequencer::update" /\ Wrapped(last.trace)
  /\ EmptyMetaTrack
  /\ Wraps >= 30
  /\ last.inputs = NoInput
  /\ currentPatterns[0] = 31 /\ currentPatterns[1] = 0
  /\ sequencePosition = 0

(***************************************************************************)
(* Claims about the direction of the arpeggios                             *)
(***************************************************************************)
\* what a Mode4 call for voice v with Event data appends when the voice's
\* flag is goingUp
ArpeggioOf(v, data, goingUp) ==
  Mode4_processEvent([ExtendedModes[4] EXCEPT
                        !.direction = [t \in DOMAIN @ |-> goingUp]],
                     v, data).out

\* the calls among the first k that were made for voice v with an active
\* Event
ActiveCalls(v, k) ==
  {j \in 1 .. k : heard[j].track = v /\ GetSwitch(heard[j].event)}

\* the notes of the note-ons of out, in order
NotesOn(out) ==
  LET ons == SelectSeq(out, LAMBDA m : m.type = "NOTE_ON")
  IN [k \in 1 .. Len(ons) |-> ons[k].data1]

====
